---- MODULE Spec2Model ----
(***************************************************************************)
(* Charge assignment of the GPU PPPM solver (lib/gpu/pppm_gpu_kernel.cu):  *)
(* the kernels particle_map, make_rho, make_rho2, make_rho3 and the        *)
(* device function atomicFloatAdd.                                         *)
(*                                                                         *)
(* Arithmetic is exact.  A fractional grid coordinate t is kept as the     *)
(* integer t*Scale (delxinv = delyinv = delzinv = 1/Scale), a table        *)
(* coefficient c as c*CoefOne, a stencil weight w as w*WOne and a brick    *)
(* value b as b*WOne^3.                                                    *)
(***************************************************************************)
EXTENDS Integers, Sequences, FiniteSets, TLC

\* ------------------------------------------------------------------ bounds
NLocal == 3          \* particles handed to a pass (nlocal)
MaxThreads == 5      \* resequencing alone: largest number of workers
MaxSkip == 5         \* resequencing alone: largest skip
MaxAdders == 3       \* concurrent callers of atomicFloatAdd on one address
MaxCmds == 4         \* pair styles: commands given to one style
EvalNlocal == 2      \* eval alone: atom->nlocal
EvalNghost == 1      \* eval alone: atom->nghost
MaxNeigh == 2        \* eval alone: entries of the neighbor list, all atoms together

\* ------------------------------------------------- kernel launch parameters
BLOCK_1D == 64
MAX_STENCIL == 8
Z_BLOCK == 8
order == 2
order2 == order * (order - 1)
order_m_1 == order - 1
nlocal_x == 2
nlocal_y == 1
nlocal_z == 2
npts_x == nlocal_x + order - 1
npts_y == nlocal_y + order - 1
npts_z == nlocal_z + order - 1
npts_yx == npts_x * npts_y
atom_stride == nlocal_x * nlocal_y * nlocal_z
b_lo_x == 2
b_lo_y == 4
b_lo_z == 6
delvolinv == 2
Scale == 2
CoefOne == 2
GLOBAL_SIZE_X == 4
x_threads == 3
RHO_SIZE_X == 3
RHO_SIZE_Y == 1

Half == Scale \div 2
NCells == nlocal_x * nlocal_y * nlocal_z
NBrick == npts_yx * npts_z
Unwritten == -1

RECURSIVE Pow(_, _)
Pow(b, e) == IF e = 0 THEN 1 ELSE b * Pow(b, e - 1)

WOne == CoefOne * Pow(Scale, order)
BrickOne == WOne * WOne * WOne

\* the positions and charges a caller may hand in: offsets from the lower
\* corner in units of 1/Scale of a grid spacing
At(fx, fy, fz, c) == [x |-> b_lo_x + fx, y |-> b_lo_y + fy, z |-> b_lo_z + fz, q |-> c]

Particles ==
  { At(0, 1, 3, -2),     \* cell (0,0,1), tx = 0 on the lower face
    At(3, 0, 1, 3),      \* cell (1,0,0)
    At(-1, 1, 0, 2),     \* tx = -1/2: negative, integer part 0
    At(4, 2, 1, -1) }    \* nx = 2 >= nlocal_x, ny = 1 >= nlocal_y

\* the (max_atoms, skip) pairs particle_map is launched with; skip divides
\* the number of workers
Launches == { <<1, 1>>, <<2, 2>> }

CoeffTables ==
  { <<3, -1, 1, -1>>,    \* asymmetric, weights sum to 1
    <<1, 2, 0, 3>> }     \* weights do not sum to 1

VARIABLES
  x_,            \* device mirror of positions and charges, x_[i] = [x,y,z,q]
  nlocal,        \* number of particles handed to the pass
  max_atoms,     \* capacity of a cell's atom list
  skip,          \* resequencing stride
  counts,        \* d_brick_counts
  ans,           \* d_brick_atoms (named ans in particle_map, atoms in make_rho)
  error,         \* d_error_flag
  pc,            \* particle_map: position of each worker
  old,           \* particle_map: each worker's local 'old'
  phase,         \* "map", "rho", "done"; "add": atomicFloatAdd alone; "reseq"
  strategy,      \* which spreading kernel was launched (0: none yet)
  rho_coeff,     \* the coefficient table handed to the spreading kernel
  rdone,         \* spreading workers (groups for make_rho2) that have finished
  brick,         \* d_brick
  brick0,        \* d_brick as it was when the pass began
  rread,         \* the positions make_rho / make_rho2 have loaded through the lists
  h_error_flag,  \* the flag as read by the host after the pass (-1: not read)
  variant,       \* atomicFloatAdd: "double" or "float"
  mem,           \* atomicFloatAdd: the bit pattern stored at *address
  apc,           \* atomicFloatAdd: position of each caller
  aval,          \* atomicFloatAdd: each caller's val
  atmp,          \* atomicFloatAdd: 'assumed' (double) / 'tmp0' (float), as bits
  aold,          \* atomicFloatAdd: 'old' (double) / 'tmp1' (float), as bits
  anew,          \* atomicFloatAdd: float variant's 'i_val'
  mem0,          \* atomicFloatAdd: the value stored before the first call
  aread,         \* atomicFloatAdd: what each caller knows of *address: "none"
                 \* (never read), "fresh" (read, no atomicCAS has stored
                 \* since), "stale" (an atomicCAS has stored since the read)
  n_threads,     \* resequencing alone: GLOBAL_SIZE_X of the launch
  resequenced,   \* resequencing alone: the index each worker has computed
  gkernel,       \* one group alone: 1 make_rho, 2 make_rho2, 3 make_rho3 (0: none)
  gshape,        \* one group alone: <<BLOCK_SIZE_X, BLOCK_SIZE_Y>>
  gnpts_z,       \* one group alone: npts_z of the launch
  gpc,           \* one group alone: position of each thread
  gnext,         \* one group alone: where a thread goes on after the barrier
  gi,            \* one group alone: make_rho2's loop variable i of each thread
  gn,            \* one group alone: make_rho2's loop variable n of each thread
  garr,          \* one group alone: barriers each thread has arrived at
  gbar,          \* one group alone: barriers each thread has passed
  gcoeff,        \* one group alone: entries of the shared rho_coeff written
  gread,         \* one group alone: entries of the shared rho_coeff read
  gtids,         \* one group alone: the threads of the group that are followed
  gfront,        \* one group alone: make_rho2's shared 'front'; an entry holds the
                 \* set of the contributions <<z, n>> (ans[n] of cell layer z)
                 \* added into it
  gacc,          \* one group alone: the accesses to 'front' so far,
                 \* <<barriers passed, thread, entry, "r" or "w">>
  gout,          \* one group alone: make_rho2's brick stores,
                 \* <<thread, iteration, nz, contributions stored>>
  pass,          \* 1, or 2 when the pass is run a second time on the same input
  first,         \* what the first of two passes left: brick, counters, flag
  wgeo,          \* the loops alone: kernel, order, local grid and launch sizes
  wdone,         \* the loops alone: the workers (make_rho) or groups (make_rho2)
                 \* that have run
  wvisit,        \* the loops alone: the cells visited, <<worker, x, y, z, index
                 \* used to read counts[]>>
  style,         \* pair styles: "class2" (PairLJClass2CoulCutOMP), "charmm"
                 \* (PairLJCharmmCoulCharmmOMP), "none" while no style is looked at
  allocated,     \* pair styles: Pair::allocated
  setflag,       \* pair styles: setflag[i][j], i <= j
  epsilon,       \* pair styles: epsilon[i][j]
  sigma,         \* pair styles: sigma[i][j]
  cut_lj,        \* class2: cut_lj[i][j];  charmm: the scalar cut_lj
  cut_coul,      \* class2: cut_coul[i][j];  charmm: the scalar cut_coul
  eps14,         \* charmm: eps14[i][j]
  sigma14,       \* charmm: sigma14[i][j]
  cut_lj_global, \* class2
  cut_coul_global, \* class2
  cut_lj_inner,  \* charmm
  cut_coul_inner, \* charmm
  offset_flag,   \* pair styles: Pair::offset_flag
  mix_flag,      \* pair styles: Pair::mix_flag
  denom_lj,      \* charmm: set by init_style
  denom_coul,    \* charmm: set by init_style
  fp,            \* pair styles: the bytes of the restart file
  saved,         \* pair styles: the style as it was when write_restart ran
  errmsg,        \* pair styles: the message error->all stopped the run with
  ncmd,          \* pair styles: the number of commands run so far
  lastcmd,       \* pair styles: the command run last
  atom,          \* eval alone: atom->nlocal, atom->nghost, atom->x and atom->f
  list,          \* eval alone: the neighbor list, inum, ilist and firstneigh
  newton_pair,   \* eval alone: force->newton_pair, the template's NEWTON_PAIR
  comm_nthreads, \* eval alone: comm->nthreads
  thr            \* eval alone: the locals of each thread of the parallel region

mapVars == <<x_, nlocal, max_atoms, skip, counts, ans, pc, old>>
rhoVars == <<strategy, rho_coeff, rdone, brick, brick0, rread>>
addVars == <<variant, mem, apc, aval, atmp, aold, anew, mem0, aread>>
seqVars == <<n_threads, resequenced>>
grpVars == <<gkernel, gshape, gnpts_z, gpc, gnext, gi, gn, garr, gbar, gcoeff, gread,
             gtids, gfront, gacc, gout>>
twiceVars == <<pass, first>>
walkVars == <<wgeo, wdone, wvisit>>
pairVars == <<style, allocated, setflag, epsilon, sigma, cut_lj, cut_coul, eps14, sigma14,
              cut_lj_global, cut_coul_global, cut_lj_inner, cut_coul_inner, offset_flag,
              mix_flag, denom_lj, denom_coul, fp, saved, errmsg, ncmd, lastcmd,
              atom, list, newton_pair, comm_nthreads, thr>>
evalVars == <<atom, list, newton_pair, comm_nthreads, thr>>
styleVars == <<style, allocated, setflag, epsilon, sigma, cut_lj, cut_coul, eps14, sigma14,
               cut_lj_global, cut_coul_global, cut_lj_inner, cut_coul_inner, offset_flag,
               mix_flag, denom_lj, denom_coul, fp, saved, errmsg, ncmd, lastcmd>>
auxVars == <<seqVars, grpVars, twiceVars, walkVars, pairVars>>
vars == <<mapVars, error, phase, rhoVars, h_error_flag, addVars, auxVars>>

Workers == 0 .. GLOBAL_SIZE_X - 1
Atoms == 0 .. nlocal - 1
Cells == 0 .. NCells - 1
Slots == 0 .. atom_stride * nlocal - 1

\* ---------------------------------------------------------- particle_map
\* int(t): conversion of a floating value to int truncates toward zero
IntPart(t) == IF t >= 0 THEN t \div Scale ELSE -((-t) \div Scale)

\* ii=__mul24(ii,skip); ii-=int(ii/nthreads)*(nthreads-1);
Resequence(g, sk, nthreads) == g * sk - ((g * sk) \div nthreads) * (nthreads - 1)

\* the particle index worker g works on
ii(g) == Resequence(g, skip, GLOBAL_SIZE_X)

\* tx=(p.x-b_lo_x)*delxinv, as tx*Scale
tx(p) == p.x - b_lo_x
ty(p) == p.y - b_lo_y
tz(p) == p.z - b_lo_z

OutOfDomainByIntPart(p) ==
  \/ IntPart(tx(p)) < 0 \/ IntPart(ty(p)) < 0 \/ IntPart(tz(p)) < 0
  \/ IntPart(tx(p)) >= nlocal_x \/ IntPart(ty(p)) >= nlocal_y
  \/ IntPart(tz(p)) >= nlocal_z

OutOfDomainOnFace(p) ==
  \/ tx(p) <= 0 \/ ty(p) <= 0 \/ tz(p) <= 0
  \/ IntPart(tx(p)) >= nlocal_x \/ IntPart(ty(p)) >= nlocal_y
  \/ IntPart(tz(p)) >= nlocal_z

\* if (tx<0 || ty<0 || tz<0 || nx>=nlocal_x || ny>=nlocal_y || nz>=nlocal_z)
OutOfDomain(p) ==
  \/ tx(p) < 0 \/ ty(p) < 0 \/ tz(p) < 0
  \/ IntPart(tx(p)) >= nlocal_x \/ IntPart(ty(p)) >= nlocal_y
  \/ IntPart(tz(p)) >= nlocal_z

\* int i=nz*nlocal_y*nlocal_x+ny*nlocal_x+nx;
CellIndexSwapped(p) ==
  IntPart(tz(p)) * nlocal_y * nlocal_x + IntPart(ty(p)) * nlocal_x
    + (nlocal_x - 1 - IntPart(tx(p)))

CellIndex(p) ==
  IntPart(tz(p)) * nlocal_y * nlocal_x + IntPart(ty(p)) * nlocal_x + IntPart(tx(p))

\* the overflow test of particle_map: if (old==max_atoms)
CellFullLate(o, cap) == o = cap + 1

CellFull(o, cap) == o = cap

\* a worker's first step: the resequenced index, the domain test, and for a
\* particle inside the domain the atomic increment  old=atom_add(counts+i,1)
MapStart(g) ==
  /\ phase = "map"
  /\ pc[g] = "start"
  /\ IF ii(g) < nlocal
       THEN IF OutOfDomain(x_[ii(g)])
              THEN /\ error' = 1
                   /\ pc' = [pc EXCEPT ![g] = "done"]
                   /\ UNCHANGED <<counts, old>>
              ELSE /\ old' = [old EXCEPT ![g] = counts[CellIndex(x_[ii(g)])]]
                   /\ counts' = [counts EXCEPT ![CellIndex(x_[ii(g)])] = @ + 1]
                   /\ pc' = [pc EXCEPT ![g] = "added"]
                   /\ UNCHANGED error
       ELSE /\ pc' = [pc EXCEPT ![g] = "done"]
            /\ UNCHANGED <<counts, old, error>>
  /\ UNCHANGED <<x_, nlocal, max_atoms, skip, ans, phase, rhoVars, h_error_flag, auxVars, addVars>>

\* if (old==max_atoms) *error=2;  else ans[atom_stride*old+i]=ii;
MapStore(g) ==
  /\ phase = "map"
  /\ pc[g] = "added"
  /\ IF CellFull(old[g], max_atoms)
       THEN /\ error' = 2
            /\ pc' = [pc EXCEPT ![g] = "undo"]
            /\ UNCHANGED ans
       ELSE /\ ans' = [ans EXCEPT ![atom_stride * old[g] + CellIndex(x_[ii(g)])] = ii(g)]
            /\ pc' = [pc EXCEPT ![g] = "done"]
            /\ UNCHANGED error
  /\ UNCHANGED <<x_, nlocal, max_atoms, skip, counts, old, phase, rhoVars, h_error_flag, auxVars, addVars>>

\* the counter after the undo  atom_add(counts+i,-1)
UndoneKept(c) == c

Undone(c) == c - 1

\* atom_add(counts+i,-1);
MapUndo(g) ==
  /\ phase = "map"
  /\ pc[g] = "undo"
  /\ counts' = [counts EXCEPT ![CellIndex(x_[ii(g)])] = Undone(@)]
  /\ pc' = [pc EXCEPT ![g] = "done"]
  /\ UNCHANGED <<x_, nlocal, max_atoms, skip, ans, old, error, phase, rhoVars, h_error_flag, auxVars, addVars>>

MapDone == \A g \in Workers : pc[g] = "done"

\* ------------------------------------------------- stencil polynomials
\* the loop with the test l > stop: the constant term is left out
RECURSIVE HornerLoopShort(_, _, _, _, _, _, _)
HornerLoopShort(coef, l, stop, shift, d, i, r) ==
  IF l <= stop THEN r * Scale
  ELSE HornerLoopShort(coef, l - order, stop, shift, d, i + 1,
                       coef[l - shift + 1] * Pow(Scale, i + 1) + r * d)

\* for (l=start; l>=stop; l-=order) r=rho_coeff[l-shift]+r*d;
\* after i steps r is kept as r*CoefOne*Scale^i
RECURSIVE HornerLoop(_, _, _, _, _, _, _)
HornerLoop(coef, l, stop, shift, d, i, r) ==
  IF l < stop THEN r
  ELSE HornerLoop(coef, l - order, stop, shift, d, i + 1,
                  coef[l - shift + 1] * Pow(Scale, i + 1) + r * d)

\* the table indices the loop reads, in order:  rho_coeff[l-shift]
RECURSIVE HornerIndices(_, _, _)
HornerIndices(l, stop, shift) ==
  IF l < stop THEN <<>>
  ELSE <<l - shift>> \o HornerIndices(l - order, stop, shift)

\* the offsets dx, dy, dz the polynomials are evaluated at: a grid index less a
\* fractional coordinate, both within the brick's extent of the lower corner
Offsets ==
  (0 - Scale * (npts_x + npts_y + npts_z)) .. Scale * (npts_x + npts_y + npts_z)

\* make_rho, make_rho3:  for (l=order2+k; l>=k; l-=order), the values of
\* rho1d[.][k] for every coefficient table and offset
Rho1dValues ==
  [coef \in CoeffTables |-> [k \in 0 .. order - 1 |-> [d \in Offsets |->
     HornerLoop(coef, order2 + k, k, 0, d, 0, 0)]]]

Rho1d(coef, k, d) == Rho1dValues[coef][k][d]

\* make_rho2:  for (k=order2+order-1; k > -1; k-=order)  rho_coeff[k-m]
Rho1dTiledSame(coef, m, d) == HornerLoop(coef, order2 + m, 0, 0, d, 0, 0)

Rho1dTiledValues ==
  [coef \in CoeffTables |-> [m \in 0 .. order - 1 |-> [d \in Offsets |->
     HornerLoop(coef, order2 + order - 1, 0, m, d, 0, 0)]]]

Rho1dTiled(coef, m, d) == Rho1dTiledValues[coef][m][d]

RECURSIVE SumFun(_, _)
SumFun(f, S) ==
  IF S = {} THEN 0
  ELSE LET e == CHOOSE e \in S : TRUE IN f[e] + SumFun(f, S \ {e})

\* every atomicFloatAdd(brick+t.pt, t.v) of a set of calls, in some order
RECURSIVE AddTerms(_, _)
AddTerms(b, T) ==
  IF T = {} THEN b
  ELSE LET t == CHOOSE t \in T : TRUE
       IN AddTerms([b EXCEPT ![t.pt] = @ + t.v], T \ {t})

Stencil == (0 .. order - 1) \X (0 .. order - 1) \X (0 .. order - 1)

\* a read of the atom list; a slot no worker wrote holds an arbitrary index u
AtomAt(slot, u) == IF ans[slot] = Unwritten THEN u ELSE ans[slot]

\* ---------------------------------------------------------------- make_rho
RhoWorkers == (0 .. RHO_SIZE_X - 1) \X (0 .. RHO_SIZE_Y - 1)

\* a z block that is not cut at the end of the local grid
ZStopUncut(nz0, nlz) == nz0 + Z_BLOCK

\* int z_stop=nz+8; if (z_stop>nlocal_z) z_stop=nlocal_z;
ZStop(nz0, nlz) == IF nz0 + Z_BLOCK > nlz THEN nlz ELSE nz0 + Z_BLOCK

\* the (nz,row) pairs worker w = <<gx,gy>> visits
RhoJobs(w) ==
  LET z_block == w[1] \div x_threads
      nx == w[1] % x_threads
      ny == w[2]
      nz0 == z_block * Z_BLOCK
      z_stop == ZStop(nz0, nlocal_z)
  IN IF nx < nlocal_x /\ ny < nlocal_y
       THEN { j \in (nz0 .. z_stop - 1) \X (0 .. nlocal - 1) :
                j[2] < counts[j[1] * nlocal_x * nlocal_y + ny * nlocal_x + nx] }
       ELSE {}

\* dx=nx-(p.x-b_lo_x)*delxinv
RhoArg(n, t) == n * Scale - t

\* dx=nx+(numtyp)0.5-tx
Rho3Arg(n, t) == n * Scale + Half - t

\* the value one atomicFloatAdd of make_rho adds: x0*rho1d[0][l]
RhoTerm(coef, p, nx, ny, nz, l, m, n) ==
  delvolinv * p.q * Rho1d(coef, n, RhoArg(nz, tz(p)))
    * Rho1d(coef, m, RhoArg(ny, ty(p))) * Rho1d(coef, l, RhoArg(nx, tx(p)))

\* brick+my+l with mz=nz*npts_yx+nx, my=mz+ny*npts_x, stepped by m and n
RhoPointWide(nx, ny, nz, l, m, n) == (nz + n) * npts_yx + (ny + m) * npts_yx + nx + l

RhoPoint(nx, ny, nz, l, m, n) == (nz + n) * npts_yx + (ny + m) * npts_x + nx + l

\* the atomicFloatAdd calls of worker w over its whole run: one per visited
\* (nz,row) and stencil offset (l,m,n)
RhoCalls(w, u) ==
  LET nx == w[1] % x_threads
      ny == w[2]
  IN { [pt |-> RhoPoint(nx, ny, t[1][1], t[2][1], t[2][2], t[2][3]),
        v |-> RhoTerm(rho_coeff,
                      x_[AtomAt(atom_stride * t[1][2]
                                + t[1][1] * nlocal_x * nlocal_y + ny * nlocal_x + nx, u)],
                      nx, ny, t[1][1], t[2][1], t[2][2], t[2][3]),
        id |-> t] : t \in RhoJobs(w) \X Stencil }

\* int atom=atoms[__mul24(atom_stride,row)+z_pos]: the indices worker w reads
RhoReads(w, u) ==
  { AtomAt(atom_stride * j[2] + j[1] * nlocal_x * nlocal_y + w[2] * nlocal_x
             + (w[1] % x_threads), u) : j \in RhoJobs(w) }

\* some slot the worker reads was never written
RhoUnwritten(w) ==
  \E j \in RhoJobs(w) :
    ans[atom_stride * j[2] + j[1] * nlocal_x * nlocal_y + w[2] * nlocal_x
        + (w[1] % x_threads)] = Unwritten

\* one worker of make_rho runs to completion; every atomicFloatAdd adds its
\* value to the brick point
MakeRho(w) ==
  /\ phase = "rho" /\ strategy = 1
  /\ w \notin rdone
  /\ \E u \in (IF RhoUnwritten(w) THEN Atoms ELSE {0}) :
       /\ brick' = AddTerms(brick, RhoCalls(w, u))
       /\ rread' = rread \cup { x_[i] : i \in RhoReads(w, u) }
  /\ rdone' = rdone \cup {w}
  /\ UNCHANGED <<mapVars, error, phase, strategy, rho_coeff, brick0, h_error_flag, auxVars,
                 addVars>>

\* --------------------------------------------------------------- make_rho2
\* one group per brick column (BLOCK_ID_X, BLOCK_ID_Y), BLOCK_1D workers each
RhoGroups == (0 .. npts_x - 1) \X (0 .. npts_y - 1)

loop_count == npts_z \div BLOCK_1D + 1

\* x_start=0; if (nx<order_m_1) x_start=order_m_1-nx;   for any order
WinStart(n, om1) == IF n < om1 THEN om1 - n ELSE 0

\* a window that is not cut at the upper end of the local grid
WinStopUncut(n, nloc, ord) == ord

\* x_stop=order; if (nx>=nlocal_x) x_stop-=nx-nlocal_x+1;   for any order
WinStop(n, nloc, ord) == IF n >= nloc THEN ord - (n - nloc + 1) ELSE ord

TileStart(n) == WinStart(n, order_m_1)

TileStop(n, nloc) == WinStop(n, nloc, order)

\* for (int row=pos; row<natoms; row+=atom_stride), natoms=counts[pos]*atom_stride
TileRowsShort(pos) ==
  { row \in pos .. (counts[pos] - 1) * atom_stride - 1 : (row - pos) % atom_stride = 0 }

TileRows(pos) ==
  { row \in pos .. counts[pos] * atom_stride - 1 : (row - pos) % atom_stride = 0 }

\* the (m,l,row) triples worker nz of group b visits
TileJobs(b, nz) ==
  IF nz < nlocal_z
    THEN UNION { UNION { { <<m, l, row>> :
                             row \in TileRows(nz * nlocal_x * nlocal_y
                                              + (b[2] + m - order_m_1) * nlocal_x
                                              + (b[1] + l - order_m_1)) } :
                         l \in TileStart(b[1]) .. TileStop(b[1], nlocal_x) - 1 } :
                 m \in TileStart(b[2]) .. TileStop(b[2], nlocal_y) - 1 }
    ELSE {}

\* z0*=rho1d_1*rho1d_0;  ans[n]+=z0*rho1d_2;
TileTerm(coef, p, x_pos, y_pos, nz, l, m, n) ==
  delvolinv * p.q * Rho1dTiled(coef, m, RhoArg(y_pos, ty(p)))
    * Rho1dTiled(coef, l, RhoArg(x_pos, tx(p))) * Rho1d(coef, n, RhoArg(nz, tz(p)))

\* ans[n] of the worker with z index nz
TileAns(b, nz, n, u) ==
  LET J == TileJobs(b, nz)
      v == [j \in J |->
              TileTerm(rho_coeff, x_[AtomAt(j[3], u)],
                       b[1] + j[2] - order_m_1, b[2] + j[1] - order_m_1, nz,
                       j[2], j[1], n)]
  IN SumFun(v, J)

\* entry j of the shared buffer 'front' after loop iteration i (before the
\* loop for i = -1): the halo of the previous iteration moves to the first
\* 'order' entries, the rest is cleared, then every worker tx adds ans[n] at
\* front[tx+n]
RECURSIVE Front(_, _, _, _)
Front(b, i, j, u) ==
  IF i < 0 THEN 0
  ELSE LET N == { n \in 0 .. order - 1 : j - n >= 0 /\ j - n < BLOCK_1D }
       IN (IF j < order THEN Front(b, i - 1, BLOCK_1D + j, u) ELSE 0)
          + SumFun([n \in N |-> TileAns(b, (j - n) + i * BLOCK_1D, n, u)], N)

\* pt=nz*npts_yx+ny*npts_x+nx
TilePointWide(b, nz) == nz * npts_yx + b[2] * npts_yx + b[1]

TilePoint(b, nz) == nz * npts_yx + b[2] * npts_x + b[1]

\* the store written as an accumulation, brick[pt]+=front[tx]
RECURSIVE TileStoreAdding(_, _, _, _)
TileStoreAdding(b, br, nz, u) ==
  IF nz >= loop_count * BLOCK_1D \/ nz >= npts_z THEN br
  ELSE TileStoreAdding(b, [br EXCEPT ![TilePoint(b, nz)] =
                               @ + Front(b, nz \div BLOCK_1D, nz % BLOCK_1D, u)],
                       nz + 1, u)

\* if (nz<npts_z) brick[pt]=front[tx];  for the workers nz, nz+1, ... of group b
RECURSIVE TileStore(_, _, _, _)
TileStore(b, br, nz, u) ==
  IF nz >= loop_count * BLOCK_1D \/ nz >= npts_z THEN br
  ELSE TileStore(b, [br EXCEPT ![TilePoint(b, nz)] = Front(b, nz \div BLOCK_1D, nz % BLOCK_1D, u)],
                 nz + 1, u)

\* int atom=atoms[row]: the indices the workers of group b read
TileReads(b, u) ==
  UNION { { AtomAt(j[3], u) : j \in TileJobs(b, nz) } : nz \in 0 .. nlocal_z - 1 }

\* some slot the group reads was never written
TileUnwritten(b) ==
  \E nz \in 0 .. nlocal_z - 1 : \E j \in TileJobs(b, nz) : ans[j[3]] = Unwritten

\* BLOCK_ID_Y*GRID_SIZE_X+BLOCK_ID_X: the position of a group in the grid
GroupId(b) == b[2] * npts_x + b[1]

\* the groups that may run next: the first and the last, in grid order, of
\* those that have not run (the groups share nothing but the read-only inputs
\* and write different brick points, so the ascending and the descending
\* order and their mixtures stand for all orders)
NextGroups ==
  { b \in RhoGroups \ rdone :
      \/ \A c \in RhoGroups \ rdone : GroupId(c) >= GroupId(b)
      \/ \A c \in RhoGroups \ rdone : GroupId(c) <= GroupId(b) }

\* one group of make_rho2 runs to completion
MakeRho2(b) ==
  /\ phase = "rho" /\ strategy = 2
  /\ b \in NextGroups
  /\ \E u \in (IF TileUnwritten(b) THEN Atoms ELSE {0}) :
       /\ brick' = TileStore(b, brick, 0, u)
       /\ rread' = rread \cup { x_[i] : i \in TileReads(b, u) }
  /\ rdone' = rdone \cup {b}
  /\ UNCHANGED <<mapVars, error, phase, strategy, rho_coeff, brick0, h_error_flag, auxVars,
                 addVars>>

\* --------------------------------------------------------------- make_rho3
Rho3Term(coef, p, l, m, n) ==
  delvolinv * p.q * Rho1d(coef, n, Rho3Arg(IntPart(tz(p)), tz(p)))
    * Rho1d(coef, m, Rho3Arg(IntPart(ty(p)), ty(p)))
    * Rho1d(coef, l, Rho3Arg(IntPart(tx(p)), tx(p)))

\* the atomicFloatAdd calls of the worker that deposits particle p
Rho3Calls(p) ==
  { [pt |-> RhoPoint(IntPart(tx(p)), IntPart(ty(p)), IntPart(tz(p)), t[1], t[2], t[3]),
     v |-> Rho3Term(rho_coeff, p, t[1], t[2], t[3]),
     id |-> t] : t \in Stencil }

\* make_rho3 with particle_map's overflow branch carried over: a particle outside
\* the domain also takes back a counter increment
MakeRho3Undoing(g) ==
  /\ phase = "rho" /\ strategy = 3
  /\ g \notin rdone
  /\ IF ii(g) < nlocal
       THEN IF OutOfDomain(x_[ii(g)])
              THEN /\ error' = 1
                   /\ counts' = [counts EXCEPT ![0] = @ - 1]
                   /\ UNCHANGED brick
              ELSE /\ brick' = AddTerms(brick, Rho3Calls(x_[ii(g)]))
                   /\ UNCHANGED <<error, counts>>
       ELSE UNCHANGED <<brick, error, counts>>
  /\ rdone' = rdone \cup {g}
  /\ UNCHANGED <<x_, nlocal, max_atoms, skip, ans, pc, old, phase, strategy, rho_coeff,
                 rread, brick0, h_error_flag, auxVars, addVars>>

\* one worker of make_rho3 runs to completion
MakeRho3(g) ==
  /\ phase = "rho" /\ strategy = 3
  /\ g \notin rdone
  /\ IF ii(g) < nlocal
       THEN IF OutOfDomain(x_[ii(g)])
              THEN /\ error' = 1
                   /\ UNCHANGED brick
              ELSE /\ brick' = AddTerms(brick, Rho3Calls(x_[ii(g)]))
                   /\ UNCHANGED error
       ELSE UNCHANGED <<brick, error>>
  /\ rdone' = rdone \cup {g}
  /\ UNCHANGED <<mapVars, phase, strategy, rho_coeff, rread, brick0, h_error_flag, auxVars, addVars>>

\* ------------------------------------------------------------ the pass
RhoUnits == IF strategy = 1 THEN RhoWorkers ELSE IF strategy = 2 THEN RhoGroups ELSE Workers

\* particle_map has completed; one of the spreading kernels is launched (in a
\* second pass the same kernel with the same coefficients)
LaunchRho(s, coef) ==
  /\ phase = "map"
  /\ MapDone
  /\ pass = 2 => (s = first.strategy /\ coef = first.rho_coeff)
  /\ phase' = "rho"
  /\ strategy' = s
  /\ rho_coeff' = coef
  /\ UNCHANGED <<mapVars, error, rdone, brick, rread, brick0, h_error_flag, auxVars, addVars>>

\* the spreading kernel has completed; the host reads the flag once
ReadFlag ==
  /\ phase = "rho"
  /\ rdone = RhoUnits
  /\ h_error_flag' = error
  /\ phase' = "done"
  /\ UNCHANGED <<mapVars, error, rhoVars, addVars, auxVars>>

\* ---------------------------------------------------------- atomicFloatAdd
\* __double_as_longlong / __float_as_int: the bit pattern of a value, sign and
\* magnitude (the sign bit lies above every magnitude that occurs); the
\* pattern 0 is the value 0
SignBit == Pow(2, 30)
AsBits(v) == IF v >= 0 THEN v ELSE SignBit + (0 - v)

\* __longlong_as_double / __int_as_float
AsValue(b) == IF b >= SignBit THEN 0 - (b - SignBit) ELSE b

\* the pattern of -0.0: the sign bit alone; its value equals that of +0.0
NegZero == SignBit

\* the pattern of a NaN: a magnitude above every number that occurs
NaNBits == SignBit - 1

\* val + x for the value with pattern b, as a pattern: NaN stays NaN, and a sum
\* that is zero is +0.0 (the addends val are never -0.0)
FloatSum(val, b) == IF b = NaNBits THEN NaNBits ELSE AsBits(val + AsValue(b))

\* assumed != old on floating values: -0.0 equals +0.0, a NaN differs from
\* everything, itself included
FloatNe(b1, b2) == b1 = NaNBits \/ b2 = NaNBits \/ AsValue(b1) # AsValue(b2)

Adders == 1 .. MaxAdders

\* atomicCAS(address, compare, val): stores val if *address = compare;
\* returns the pattern that was stored before
CasStoreAlways(cur, compare, val) == val

CasStore(cur, compare, val) == IF cur = compare THEN val ELSE cur

\* the value a caller carries into its next attempt: the one atomicCAS returned
\* (double: old=atomicCAS(...); float: tmp0=tmp1)
RereadKept(seen, prev) == prev

Reread(seen, prev) == seen

\* what the callers know of *address after caller a has read it, by a plain
\* read or as the return value of an atomicCAS that stored (stored = TRUE) or not
Known(a, stored) ==
  [b \in DOMAIN aread |->
     IF b = a THEN "fresh"
     ELSE IF stored /\ aread[b] = "fresh" THEN "stale" ELSE aread[b]]

\* double variant:  double old=*address
DoubleRead(a) ==
  /\ phase = "add" /\ variant = "double"
  /\ apc[a] = "read"
  /\ aold' = [aold EXCEPT ![a] = mem]
  /\ apc' = [apc EXCEPT ![a] = "cas"]
  /\ aread' = Known(a, FALSE)
  /\ UNCHANGED <<mapVars, error, phase, rhoVars, h_error_flag, auxVars,
                 variant, mem, aval, atmp, anew, mem0>>

\* double variant, one loop iteration:  assumed=old;
\* old=atomicCAS(address, assumed, val+assumed);  while (assumed != old)
DoubleCas(a) ==
  /\ phase = "add" /\ variant = "double"
  /\ apc[a] = "cas"
  /\ atmp' = [atmp EXCEPT ![a] = aold[a]]
  /\ mem' = CasStore(mem, aold[a], FloatSum(aval[a], aold[a]))
  /\ aold' = [aold EXCEPT ![a] = Reread(mem, aold[a])]
  /\ apc' = [apc EXCEPT ![a] = IF FloatNe(aold[a], mem) THEN "cas" ELSE "done"]
  /\ aread' = Known(a, mem = aold[a])
  /\ UNCHANGED <<mapVars, error, phase, rhoVars, h_error_flag, auxVars,
                 variant, aval, anew, mem0>>

\* float variant, one loop iteration:
\* while ((tmp1=atomicCAS(address, tmp0, i_val)) != tmp0)
\*   { tmp0=tmp1; i_val=__float_as_int(val+__int_as_float(tmp1)); }
FloatCas(a) ==
  /\ phase = "add" /\ variant = "float"
  /\ apc[a] = "cas"
  /\ mem' = CasStore(mem, atmp[a], anew[a])
  /\ aold' = [aold EXCEPT ![a] = mem]
  /\ aread' = Known(a, mem = atmp[a])
  /\ IF mem # atmp[a]
       THEN /\ atmp' = [atmp EXCEPT ![a] = Reread(mem, atmp[a])]
            /\ anew' = [anew EXCEPT ![a] = FloatSum(aval[a], mem)]
            /\ UNCHANGED apc
       ELSE /\ apc' = [apc EXCEPT ![a] = "done"]
            /\ UNCHANGED <<atmp, anew>>
  /\ UNCHANGED <<mapVars, error, phase, rhoVars, h_error_flag, auxVars, variant, aval, mem0>>

\* ------------------------------------------------------------ initial state
SeqIdle ==
  /\ n_threads = 0
  /\ resequenced = <<>>

TwiceIdle ==
  /\ pass = 1
  /\ first = <<>>

WalkIdle ==
  /\ wgeo = <<>>
  /\ wdone = {}
  /\ wvisit = {}

\* a value no statement has assigned
Garbage == -999

EvalIdle ==
  /\ atom = <<>>
  /\ list = <<>>
  /\ newton_pair = 0
  /\ comm_nthreads = 0
  /\ thr = <<>>

PairIdle ==
  /\ EvalIdle
  /\ style = "none"
  /\ allocated = 0
  /\ setflag = <<>> /\ epsilon = <<>> /\ sigma = <<>> /\ eps14 = <<>> /\ sigma14 = <<>>
  /\ cut_lj = Garbage /\ cut_coul = Garbage
  /\ cut_lj_global = Garbage /\ cut_coul_global = Garbage
  /\ cut_lj_inner = Garbage /\ cut_coul_inner = Garbage
  /\ offset_flag = 0 /\ mix_flag = 0
  /\ denom_lj = Garbage /\ denom_coul = Garbage
  /\ fp = <<>>
  /\ saved = <<>>
  /\ errmsg = ""
  /\ ncmd = 0
  /\ lastcmd = ""

GroupIdle ==
  /\ TwiceIdle
  /\ gkernel = 0
  /\ gshape = <<0, 0>>
  /\ gnpts_z = 0
  /\ gpc = <<>>
  /\ gnext = <<>>
  /\ gi = <<>>
  /\ gn = <<>>
  /\ garr = <<>>
  /\ gbar = <<>>
  /\ gcoeff = {}
  /\ gread = {}
  /\ gtids = {}
  /\ gfront = <<>>
  /\ gacc = {}
  /\ gout = {}

AddIdle ==
  /\ variant = "double"
  /\ mem = 0
  /\ mem0 = 0
  /\ apc = [a \in 1 .. MaxAdders |-> "done"]
  /\ aval = [a \in 1 .. MaxAdders |-> 0]
  /\ atmp = [a \in 1 .. MaxAdders |-> 0]
  /\ aold = [a \in 1 .. MaxAdders |-> 0]
  /\ anew = [a \in 1 .. MaxAdders |-> 0]
  /\ aread = [a \in 1 .. MaxAdders |-> "none"]

\* the state at the launch of particle_map: counters, flag and brick zeroed
Init ==
  /\ nlocal = NLocal
  /\ x_ \in [Atoms -> Particles]
  /\ \E L \in Launches : max_atoms = L[1] /\ skip = L[2]
  /\ counts = [c \in Cells |-> 0]
  /\ ans = [s \in Slots |-> Unwritten]
  /\ error = 0
  /\ pc = [g \in Workers |-> "start"]
  /\ old = [g \in Workers |-> 0]
  /\ phase = "map"
  /\ strategy = 0
  /\ rho_coeff = <<>>
  /\ rdone = {}
  /\ brick = [b \in 0 .. NBrick - 1 |-> 0]
  /\ brick0 = brick
  /\ rread = {}
  /\ h_error_flag = -1
  /\ AddIdle
  /\ SeqIdle
  /\ GroupIdle
  /\ WalkIdle
  /\ PairIdle

Next ==
  \/ \E g \in Workers : MapStart(g)
  \/ \E g \in Workers : MapStore(g)
  \/ \E g \in Workers : MapUndo(g)
  \/ \E s \in 1 .. 3, coef \in CoeffTables : LaunchRho(s, coef)
  \/ \E w \in RhoWorkers : MakeRho(w)
  \/ \E b \in RhoGroups : MakeRho2(b)
  \/ \E g \in Workers : MakeRho3(g)
  \/ ReadFlag

Spec == Init /\ [][Next]_vars

\* ------------------------------------ atomicFloatAdd on one brick point
AddValues == {-1, 1, 2}

\* the pass variables while atomicFloatAdd is looked at alone
PassIdle ==
  /\ nlocal = NLocal
  /\ x_ = [i \in Atoms |-> At(0, 0, 0, 0)]
  /\ max_atoms = 1
  /\ skip = 1
  /\ counts = [c \in Cells |-> 0]
  /\ ans = [s \in Slots |-> Unwritten]
  /\ error = 0
  /\ pc = [g \in Workers |-> "done"]
  /\ old = [g \in Workers |-> 0]
  /\ phase = "add"
  /\ strategy = 0
  /\ rho_coeff = <<>>
  /\ rdone = {}
  /\ brick = [b \in 0 .. NBrick - 1 |-> 0]
  /\ brick0 = brick
  /\ rread = {}
  /\ h_error_flag = -1

\* MaxAdders workers have each called atomicFloatAdd(address, val) on the same
\* address, which holds mem0
InitAdd ==
  /\ PassIdle
  /\ variant \in {"double", "float"}
  /\ mem0 \in {0, 3, -2}
  /\ mem = AsBits(mem0)
  /\ aval \in [Adders -> AddValues]
  /\ apc = [a \in Adders |-> IF variant = "double" THEN "read" ELSE "cas"]
  /\ atmp = [a \in Adders |-> 0]
  /\ aold = [a \in Adders |-> 0]
  /\ anew = [a \in Adders |-> AsBits(aval[a])]
  /\ aread = [a \in Adders |-> "none"]
  /\ SeqIdle
  /\ GroupIdle
  /\ WalkIdle
  /\ PairIdle

NextAdd ==
  \/ \E a \in Adders : DoubleRead(a)
  \/ \E a \in Adders : DoubleCas(a)
  \/ \E a \in Adders : FloatCas(a)

SpecAdd == InitAdd /\ [][NextAdd]_vars

\* the address holds -0.0 or a NaN when the callers arrive
InitAddBits ==
  /\ PassIdle
  /\ variant \in {"double", "float"}
  /\ mem \in {NegZero, NaNBits}
  /\ mem0 = AsValue(mem)
  /\ aval \in [Adders -> AddValues]
  /\ apc = [a \in Adders |-> IF variant = "double" THEN "read" ELSE "cas"]
  /\ atmp = [a \in Adders |-> 0]
  /\ aold = [a \in Adders |-> 0]
  /\ anew = [a \in Adders |-> AsBits(aval[a])]
  /\ aread = [a \in Adders |-> "none"]
  /\ SeqIdle
  /\ GroupIdle
  /\ WalkIdle
  /\ PairIdle

SpecAddBits == InitAddBits /\ [][NextAdd]_vars

\* every caller that can take a step eventually takes one
SpecAddFair ==
  /\ SpecAdd
  /\ \A a \in Adders : WF_vars(DoubleRead(a) \/ DoubleCas(a) \/ FloatCas(a))

\* the pass variables, but for skip, while a part of a kernel is looked at alone
PassParked(ph) ==
  /\ nlocal = NLocal
  /\ x_ = [i \in Atoms |-> At(0, 0, 0, 0)]
  /\ max_atoms = 1
  /\ counts = [c \in Cells |-> 0]
  /\ ans = [s \in Slots |-> Unwritten]
  /\ error = 0
  /\ pc = [g \in Workers |-> "done"]
  /\ old = [g \in Workers |-> 0]
  /\ phase = ph
  /\ strategy = 0
  /\ rho_coeff = <<>>
  /\ rdone = {}
  /\ brick = [b \in 0 .. NBrick - 1 |-> 0]
  /\ brick0 = brick
  /\ rread = {}
  /\ h_error_flag = -1

\* ------------------------------------------------- the pass run twice
\* two particles of cell (0,0,1) at the same place with the same charge, and
\* one outside the domain
TwiceParticles == { At(0, 1, 3, -2), At(-1, 1, 0, 2) }

InitTwice ==
  /\ nlocal = NLocal
  /\ x_ \in [Atoms -> TwiceParticles]
  /\ max_atoms = 1 /\ skip = 1
  /\ counts = [c \in Cells |-> 0]
  /\ ans = [s \in Slots |-> Unwritten]
  /\ error = 0
  /\ pc = [g \in Workers |-> "start"]
  /\ old = [g \in Workers |-> 0]
  /\ phase = "map"
  /\ strategy = 0
  /\ rho_coeff = <<>>
  /\ rdone = {}
  /\ brick = [b \in 0 .. NBrick - 1 |-> 0]
  /\ brick0 = brick
  /\ rread = {}
  /\ h_error_flag = -1
  /\ AddIdle
  /\ SeqIdle
  /\ GroupIdle
  /\ WalkIdle
  /\ PairIdle

\* the first pass is over; the counters, the flag and the brick are zeroed and
\* the pass is started again on the same positions, charges, geometry and
\* coefficients (the atom lists are not cleared)
Reset ==
  /\ phase = "done" /\ pass = 1
  /\ first' = [brick |-> brick, counts |-> counts, error |-> error,
                strategy |-> strategy, rho_coeff |-> rho_coeff]
  /\ pass' = 2
  /\ counts' = [c \in Cells |-> 0]
  /\ error' = 0
  /\ brick' = [b \in 0 .. NBrick - 1 |-> 0]
  /\ brick0' = brick'
  /\ pc' = [g \in Workers |-> "start"]
  /\ old' = [g \in Workers |-> 0]
  /\ phase' = "map"
  /\ strategy' = 0
  /\ rdone' = {}
  /\ rread' = {}
  /\ h_error_flag' = -1
  /\ UNCHANGED <<x_, nlocal, max_atoms, skip, ans, rho_coeff, addVars, seqVars, grpVars,
                 walkVars, pairVars>>

NextTwice == Next \/ Reset

SpecTwice == InitTwice /\ [][NextTwice]_vars

\* --------------------------------------------- a pass on a crowded cell
\* one particle more than in the other passes: enough for max_atoms+2
\* particles of one cell beside a particle outside the domain
NCrowd == NLocal + 1

InitCrowd ==
  /\ nlocal = NCrowd
  /\ x_ \in [Atoms -> TwiceParticles]
  /\ max_atoms = 1 /\ skip = 1
  /\ counts = [c \in Cells |-> 0]
  /\ ans = [s \in Slots |-> Unwritten]
  /\ error = 0
  /\ pc = [g \in Workers |-> "start"]
  /\ old = [g \in Workers |-> 0]
  /\ phase = "map"
  /\ strategy = 0
  /\ rho_coeff = <<>>
  /\ rdone = {}
  /\ brick = [b \in 0 .. NBrick - 1 |-> 0]
  /\ brick0 = brick
  /\ rread = {}
  /\ h_error_flag = -1
  /\ AddIdle
  /\ SeqIdle
  /\ GroupIdle
  /\ WalkIdle
  /\ PairIdle

SpecCrowd == InitCrowd /\ [][Next]_vars

\* ------------------------------------ a pass on a brick that was not zeroed
\* what the brick may hold when the pass begins: zeroes, or values left there
PriorBricks ==
  { [pt \in 0 .. NBrick - 1 |-> 0],
    [pt \in 0 .. NBrick - 1 |-> (pt - 4) * BrickOne] }

InitPrior ==
  /\ nlocal = NLocal
  /\ x_ \in [Atoms -> TwiceParticles \cup {At(3, 0, 1, 3)}]
  /\ max_atoms = 2 /\ skip = 1
  /\ counts = [c \in Cells |-> 0]
  /\ ans = [s \in Slots |-> Unwritten]
  /\ error = 0
  /\ pc = [g \in Workers |-> "start"]
  /\ old = [g \in Workers |-> 0]
  /\ phase = "map"
  /\ strategy = 0
  /\ rho_coeff = <<>>
  /\ rdone = {}
  /\ brick \in PriorBricks
  /\ brick0 = brick
  /\ rread = {}
  /\ h_error_flag = -1
  /\ AddIdle
  /\ SeqIdle
  /\ GroupIdle
  /\ WalkIdle
  /\ PairIdle

SpecPrior == InitPrior /\ [][Next]_vars

\* -------------------------------------------- the resequencing on its own
\* a launch of n workers with stride sk: the first lines of particle_map and
\* make_rho3, before any particle is touched
InitReseq ==
  /\ PassParked("reseq")
  /\ AddIdle
  /\ GroupIdle
  /\ WalkIdle
  /\ PairIdle
  /\ n_threads \in 1 .. MaxThreads
  /\ \E sk \in 1 .. MaxSkip : skip = sk
  /\ resequenced = <<>>

\* the bookkeeping of the other kernels does not move
PassFrozen ==
  UNCHANGED <<mapVars, error, phase, rhoVars, h_error_flag, addVars, twiceVars, walkVars, pairVars>>

\* worker g computes its index:
\* ii=GLOBAL_ID_X; ii=__mul24(ii,skip); ii-=int(ii/nthreads)*(nthreads-1);
ResequenceStep(g) ==
  /\ phase = "reseq"
  /\ g \in 0 .. n_threads - 1
  /\ g \notin DOMAIN resequenced
  /\ resequenced' = [h \in DOMAIN resequenced \cup {g} |->
                       IF h = g THEN Resequence(g, skip, n_threads) ELSE resequenced[h]]
  /\ UNCHANGED <<n_threads, grpVars>>
  /\ PassFrozen

NextReseq == \E g \in 0 .. MaxThreads - 1 : ResequenceStep(g)

SpecReseq == InitReseq /\ [][NextReseq]_vars

\* ------------------------------------------ one group and its barriers
\* the threads of one group run a kernel from its first line; what is kept of
\* the data is which entries of the shared rho_coeff are written and read
GroupShapes(k) ==
  IF k = 1 THEN { <<2, 2>>, <<3, 1>>, <<3, 2>> }
  ELSE { <<3, 1>>, <<4, 1>>, <<5, 1>> }

\* npts_z of the launch: one and two iterations of make_rho2's loop
GroupNptsZ(k) == IF k = 2 THEN { npts_z, BLOCK_1D } ELSE { npts_z }

\* <<THREAD_ID_X, THREAD_ID_Y>> of the threads that are followed
Threads == gtids

\* __local numtyp front[BLOCK_1D+MAX_STENCIL]; before the kernel writes an
\* entry it holds whatever was there
Junk == <<-1, -1>>
FrontEntries == 0 .. BLOCK_1D + MAX_STENCIL - 1

\* int tx_halo=BLOCK_1D+tx;
HaloSlotLow(t) == BLOCK_1D - 1 + t

HaloSlot(t) == BLOCK_1D + t

\* an access of thread t to front[e] now
Access(t, e, k) == <<garr[t], t, e, k>>

\* ans[n] of thread t in iteration i: the contribution of cell layer
\* nz = tx + i*BLOCK_1D to brick layer nz+n, nothing when nz >= nlocal_z
Ans(t, i, n) ==
  IF t[1] + i * BLOCK_1D < gnpts_z - order + 1
    THEN { <<t[1] + i * BLOCK_1D, n>> }
    ELSE {}

\* a loop count without the extra iteration
LoopCountShort(nz) == nz \div BLOCK_1D

\* int loop_count=npts_z/BLOCK_1D+1;
LoopCount(nz) == nz \div BLOCK_1D + 1

\* make_rho:  int ri=__mul24(nx,order)+ny;
CoeffSlotRow(nx, ny) == nx * order

CoeffSlot(nx, ny) == nx * order + ny

\* the entries thread t writes before the first barrier:
\* make_rho:  if (nx<order && ny<order) rho_coeff[ri]=_rho_coeff[ri];
\* make_rho2, make_rho3:  if (tx<order2+order) rho_coeff[tx]=_rho_coeff[tx];
Loads(k, t) ==
  IF k = 1
    THEN IF t[1] < order /\ t[2] < order THEN { CoeffSlot(t[1], t[2]) } ELSE {}
    ELSE IF t[1] < order2 + order THEN { t[1] } ELSE {}

\* for (l=order2+k; l>=k; l-=order) ... rho_coeff[l], for every k<order
HornerReads == { k + j * order : k \in 0 .. order - 1, j \in 0 .. order - 1 }

\* for (k=order2+order-1; k > -1; k-=order) ... rho_coeff[k-m], m in [lo,hi)
TiledReads(lo, hi) ==
  { order2 + order - 1 - j * order - m : j \in 0 .. order - 1, m \in lo .. hi - 1 }

\* the entries a thread of the group of brick column b reads per atom
WorkReads(k, b) ==
  IF k = 2
    THEN TiledReads(TileStart(b[2]), TileStop(b[2], nlocal_y))
           \cup TiledReads(TileStart(b[1]), TileStop(b[1], nlocal_x)) \cup HornerReads
    ELSE HornerReads

\* whether a thread comes to the barrier that follows make_rho2's accumulation,
\* given the outcome of  if (nz<nlocal_z):  the barrier lies after the branch
ReachesIfInRange(inrange) == inrange

Reaches(inrange) == TRUE

\* every followed thread is at the first line of the kernel
GroupAtEntry ==
  /\ gpc = [t \in Threads |-> "load"]
  /\ gnext = [t \in Threads |-> "work"]
  /\ gi = [t \in Threads |-> 0]
  /\ gn = [t \in Threads |-> 0]
  /\ garr = [t \in Threads |-> 0]
  /\ gbar = [t \in Threads |-> 0]
  /\ gcoeff = {}
  /\ gread = {}
  /\ gfront = [e \in FrontEntries |-> {Junk}]
  /\ gacc = {}
  /\ gout = {}

InitGroup ==
  /\ PassParked("group")
  /\ skip = 1
  /\ AddIdle
  /\ SeqIdle
  /\ TwiceIdle
  /\ WalkIdle
  /\ PairIdle
  /\ gkernel \in 1 .. 3
  /\ gshape \in GroupShapes(gkernel)
  /\ gnpts_z \in GroupNptsZ(gkernel)
  /\ gtids = (0 .. gshape[1] - 1) \X (0 .. gshape[2] - 1)
  /\ GroupAtEntry

\* make_rho2 alone, launched with BLOCK_1D threads a group; of these the first
\* three and the last two are followed
FollowedThreads == { <<0, 0>>, <<1, 0>>, <<2, 0>>, <<BLOCK_1D - 2, 0>>, <<BLOCK_1D - 1, 0>> }

\* npts_z of the launch: one iteration, two with an idle second one, two with
\* cell layers in both
FrontNptsZ == { npts_z, BLOCK_1D, BLOCK_1D + order }

InitFront ==
  /\ PassParked("group")
  /\ skip = 1
  /\ AddIdle
  /\ SeqIdle
  /\ TwiceIdle
  /\ WalkIdle
  /\ PairIdle
  /\ gkernel = 2
  /\ gshape = <<BLOCK_1D, 1>>
  /\ gnpts_z \in FrontNptsZ
  /\ gtids = FollowedThreads
  /\ GroupAtEntry

GroupFrozen ==
  UNCHANGED <<mapVars, error, phase, rhoVars, h_error_flag, addVars, seqVars,
              twiceVars, walkVars, pairVars, gkernel, gshape,
              gnpts_z, gtids>>

\* thread t comes to a barrier; 'then' is where it goes on afterwards
Arrive(t, then) ==
  /\ garr' = [garr EXCEPT ![t] = @ + 1]
  /\ gpc' = [gpc EXCEPT ![t] = "barrier"]
  /\ gnext' = [gnext EXCEPT ![t] = then]

\* the lines up to the first __syncthreads(): the coefficient load
GLoad(t) ==
  /\ phase = "group" /\ t \in Threads
  /\ gpc[t] = "load"
  /\ gcoeff' = gcoeff \cup Loads(gkernel, t)
  /\ IF gkernel = 2 /\ t[1] < order
       THEN /\ gfront' = [gfront EXCEPT ![HaloSlot(t[1])] = {}]
            /\ gacc' = gacc \cup { Access(t, HaloSlot(t[1]), "w") }
       ELSE UNCHANGED <<gfront, gacc>>
  /\ Arrive(t, "work")
  /\ UNCHANGED <<gi, gn, gbar, gread, gout>>
  /\ GroupFrozen

\* __syncthreads(): a thread goes on once every thread of the group has come
\* to the barrier
GPass(t) ==
  /\ phase = "group" /\ t \in Threads
  /\ gpc[t] = "barrier"
  /\ \A u \in Threads : garr[u] >= garr[t]
  /\ gbar' = [gbar EXCEPT ![t] = @ + 1]
  /\ gpc' = [gpc EXCEPT ![t] = gnext[t]]
  /\ UNCHANGED <<gnext, gi, gn, garr, gcoeff, gread, gfront, gacc, gout>>
  /\ GroupFrozen

\* the accumulation: make_rho and make_rho3 to the end of the kernel, make_rho2
\* to the __syncthreads() after the atom loops of iteration i; a thread reads
\* coefficients when it has an atom to work on
GWork(t) ==
  /\ phase = "group" /\ t \in Threads
  /\ gpc[t] = "work"
  /\ LET inrange == t[1] + gi[t] * BLOCK_1D < gnpts_z - order + 1
     IN /\ \E has \in BOOLEAN, b \in RhoGroups :
             /\ (gkernel = 2 /\ has) => inrange
             /\ gread' = (IF has THEN gread \cup WorkReads(gkernel, b) ELSE gread)
        /\ IF gkernel = 2
             THEN IF Reaches(inrange)
                    THEN Arrive(t, "halo")
                    ELSE /\ gpc' = [gpc EXCEPT ![t] = "halo"]
                         /\ UNCHANGED <<garr, gnext>>
             ELSE /\ gpc' = [gpc EXCEPT ![t] = "done"]
                  /\ UNCHANGED <<garr, gnext>>
  /\ UNCHANGED <<gi, gn, gbar, gcoeff, gfront, gacc, gout>>
  /\ GroupFrozen

\* make_rho2: the halo moves to the front of the buffer,
\* if (tx<order) { front[tx]=front[tx_halo]; front[tx_halo]=0; } else front[tx]=0;
\* then n=0:  front[tx+n]+=ans[n]; __syncthreads();
GHalo(t) ==
  /\ phase = "group" /\ t \in Threads
  /\ gpc[t] = "halo"
  /\ gn' = [gn EXCEPT ![t] = 0]
  /\ LET lane == t[1]
         moved == IF lane < order
                    THEN [gfront EXCEPT ![lane] = gfront[HaloSlot(lane)], ![HaloSlot(lane)] = {}]
                    ELSE [gfront EXCEPT ![lane] = {}]
     IN /\ gfront' = [moved EXCEPT ![lane] = @ \cup Ans(t, gi[t], 0)]
        /\ gacc' = gacc \cup { Access(t, lane, "w"), Access(t, lane, "r") }
                     \cup (IF lane < order
                             THEN { Access(t, HaloSlot(lane), "r"), Access(t, HaloSlot(lane), "w") }
                             ELSE {})
  /\ Arrive(t, "add")
  /\ UNCHANGED <<gi, gbar, gcoeff, gread, gout>>
  /\ GroupFrozen

\* make_rho2: n++; while n<order: front[tx+n]+=ans[n]; __syncthreads();
GAdd(t) ==
  /\ phase = "group" /\ t \in Threads
  /\ gpc[t] = "add"
  /\ gn[t] + 1 < order
  /\ gn' = [gn EXCEPT ![t] = @ + 1]
  /\ gfront' = [gfront EXCEPT ![t[1] + gn[t] + 1] = @ \cup Ans(t, gi[t], gn[t] + 1)]
  /\ gacc' = gacc \cup { Access(t, t[1] + gn[t] + 1, "r"), Access(t, t[1] + gn[t] + 1, "w") }
  /\ Arrive(t, "add")
  /\ UNCHANGED <<gi, gbar, gcoeff, gread, gout>>
  /\ GroupFrozen

\* make_rho2: after the last n: if (nz<npts_z) brick[pt]=front[tx];
\* nz+=BLOCK_1D; i++ and the test i<loop_count
GStore(t) ==
  /\ phase = "group" /\ t \in Threads
  /\ gpc[t] = "add"
  /\ gn[t] + 1 >= order
  /\ gi' = [gi EXCEPT ![t] = @ + 1]
  /\ gpc' = [gpc EXCEPT ![t] = IF gi[t] + 1 < LoopCount(gnpts_z) THEN "work" ELSE "done"]
  /\ IF t[1] + gi[t] * BLOCK_1D < gnpts_z
       THEN /\ gout' = gout \cup { <<t, gi[t], t[1] + gi[t] * BLOCK_1D, gfront[t[1]]>> }
            /\ gacc' = gacc \cup { Access(t, t[1], "r") }
       ELSE UNCHANGED <<gout, gacc>>
  /\ UNCHANGED <<gnext, gn, garr, gbar, gcoeff, gread, gfront>>
  /\ GroupFrozen

AllThreads ==
  UNION { (0 .. sh[1] - 1) \X (0 .. sh[2] - 1) : sh \in GroupShapes(1) \cup GroupShapes(2) }
    \cup FollowedThreads

NextGroup ==
  \/ \E t \in AllThreads : GLoad(t)
  \/ \E t \in AllThreads : GPass(t)
  \/ \E t \in AllThreads : GWork(t)
  \/ \E t \in AllThreads : GHalo(t)
  \/ \E t \in AllThreads : GAdd(t)
  \/ \E t \in AllThreads : GStore(t)

SpecGroup == InitGroup /\ [][NextGroup]_vars

SpecFront == InitFront /\ [][NextGroup]_vars

\* ------------------------------------- the loops of make_rho and make_rho2
\* the local grids and launches the loops are walked for.  make_rho: x_threads
\* at least nlocal_x, ceil(nlocal_z/8)*x_threads workers along x or one z block
\* more, nlocal_y workers along y or one more.
WalkNlocalZ == { 1, Z_BLOCK - 1, Z_BLOCK, Z_BLOCK + 1, 2 * Z_BLOCK, 2 * Z_BLOCK + 1 }

ZBlocks(nlz) == (nlz + Z_BLOCK - 1) \div Z_BLOCK

RhoGeos ==
  UNION { UNION { UNION {
    { [kernel |-> 1, ord |-> order, nlx |-> lx, nly |-> ly, nlz |-> lz, xt |-> t,
       sx |-> (ZBlocks(lz) + more[1]) * t, sy |-> ly + more[2]] :
        t \in lx .. lx + 1, more \in (0 .. 1) \X (0 .. 1) } :
      lz \in WalkNlocalZ } : ly \in 1 .. 2 } : lx \in 1 .. 2 }

\* make_rho2: one group per brick column, orders 1 to 3
TileGeos ==
  { [kernel |-> 2, ord |-> g[1], nlx |-> g[2], nly |-> g[3], nlz |-> g[4], xt |-> 0,
     sx |-> g[2] + g[1] - 1, sy |-> g[3] + g[1] - 1] :
      g \in (1 .. 3) \X (1 .. 3) \X (1 .. 2) \X (1 .. 2) }

\* <<GLOBAL_ID_X, GLOBAL_ID_Y>> of make_rho, <<BLOCK_ID_X, BLOCK_ID_Y>> of make_rho2
WalkWorkers(g) == (0 .. g.sx - 1) \X (0 .. g.sy - 1)

AllWalkWorkers == UNION { WalkWorkers(g) : g \in RhoGeos \cup TileGeos }

\* the cells worker w of make_rho visits:
\* z_pos=nz*z_stride+ny*nlocal_x+nx; for ( ; nz<z_stop; nz++) { counts[z_pos] ... z_pos+=z_stride; }
RhoWalk(w, g) ==
  LET z_block == w[1] \div g.xt
      nx == w[1] % g.xt
      ny == w[2]
      nz0 == z_block * Z_BLOCK
  IN IF nx < g.nlx /\ ny < g.nly
       THEN { <<w, nx, ny, nz, nz * (g.nlx * g.nly) + ny * g.nlx + nx>> :
                nz \in nz0 .. ZStop(nz0, g.nlz) - 1 }
       ELSE {}

\* the cells the workers of group b of make_rho2 visit:
\* y_pos=ny+m-order_m_1; x_pos=nx+l-order_m_1; pos=z_local+y_local+x_pos
TileWalk(b, g) ==
  UNION { UNION {
    { <<b, b[1] + l - (g.ord - 1), b[2] + m - (g.ord - 1), nz,
        nz * (g.nlx * g.nly) + (b[2] + m - (g.ord - 1)) * g.nlx + (b[1] + l - (g.ord - 1))>> :
        nz \in 0 .. g.nlz - 1 } :
      l \in WinStart(b[1], g.ord - 1) .. WinStop(b[1], g.nlx, g.ord) - 1 } :
    m \in WinStart(b[2], g.ord - 1) .. WinStop(b[2], g.nly, g.ord) - 1 }

InitWalk ==
  /\ PassParked("walk")
  /\ skip = 1
  /\ AddIdle
  /\ SeqIdle
  /\ GroupIdle
  /\ PairIdle
  /\ wgeo \in RhoGeos \cup TileGeos
  /\ wdone = {}
  /\ wvisit = {}

\* the workers run in the order of their ids
WalkTurn(w) ==
  /\ w \in WalkWorkers(wgeo) \ wdone
  /\ \A v \in WalkWorkers(wgeo) \ wdone : v[2] * wgeo.sx + v[1] >= w[2] * wgeo.sx + w[1]

WalkFrozen ==
  UNCHANGED <<mapVars, error, phase, rhoVars, h_error_flag, addVars, seqVars, grpVars,
              twiceVars, pairVars, wgeo>>

\* one worker of make_rho runs through its cells
WalkRho(w) ==
  /\ phase = "walk" /\ wgeo.kernel = 1
  /\ WalkTurn(w)
  /\ wvisit' = wvisit \cup RhoWalk(w, wgeo)
  /\ wdone' = wdone \cup {w}
  /\ WalkFrozen

\* one group of make_rho2 runs through its cells
WalkTile(b) ==
  /\ phase = "walk" /\ wgeo.kernel = 2
  /\ WalkTurn(b)
  /\ wvisit' = wvisit \cup TileWalk(b, wgeo)
  /\ wdone' = wdone \cup {b}
  /\ WalkFrozen

NextWalk ==
  \/ \E w \in AllWalkWorkers : WalkRho(w)
  \/ \E b \in AllWalkWorkers : WalkTile(b)

SpecWalk == InitWalk /\ [][NextWalk]_vars

\* ------------------------------------------------- the OpenMP pair styles
\* PairLJClass2CoulCutOMP ("class2") and PairLJCharmmCoulCharmmOMP ("charmm").
\* Cutoffs and coefficients are whole numbers, arithmetic is exact.
ntypes == 2

Types == 1 .. ntypes

\* the type pairs the styles keep values for
TypePairs == { p \in Types \X Types : p[1] <= p[2] }

\* the arguments the commands are given, after force->numeric
Class2Cuts == { 2, 3 }

InnerCuts == { -2, 1 }

OuterCuts == { 1, 2 }

EpsilonArg == 5

SigmaArg == 6

Arg4 == 3

Arg5 == 4

\* ilo,ihi and jlo,jhi as force->bounds returns them
Ranges == Types \X Types

AllGarbage == [p \in TypePairs |-> Garbage]

\* the third and fourth per-pair value of the style
Third == IF style = "class2" THEN cut_lj ELSE eps14

Fourth == IF style = "class2" THEN cut_coul ELSE sigma14

\* the state the constructor leaves
InitPair ==
  /\ PassParked("pair")
  /\ skip = 1
  /\ AddIdle
  /\ SeqIdle
  /\ GroupIdle
  /\ WalkIdle
  /\ EvalIdle
  /\ style \in { "class2", "charmm" }
  /\ allocated = 0
  /\ setflag = <<>> /\ epsilon = <<>> /\ sigma = <<>> /\ eps14 = <<>> /\ sigma14 = <<>>
  /\ cut_lj = Garbage /\ cut_coul = Garbage
  /\ cut_lj_global = Garbage /\ cut_coul_global = Garbage
  /\ cut_lj_inner = Garbage /\ cut_coul_inner = Garbage
  /\ offset_flag \in 0 .. 1 /\ mix_flag = 0
  /\ denom_lj = Garbage /\ denom_coul = Garbage
  /\ fp = <<>>
  /\ saved = <<>>
  /\ errmsg = ""
  /\ ncmd = 0
  /\ lastcmd = ""

PairFrozen ==
  UNCHANGED <<mapVars, error, phase, rhoVars, h_error_flag, addVars, seqVars, grpVars,
              twiceVars, walkVars, style, offset_flag, mix_flag, evalVars>>

\* one more command is run
Command(c) == ncmd < MaxCmds /\ ncmd' = ncmd + 1 /\ lastcmd' = c

\* error->all(str) ends the run
Fail(str) ==
  /\ errmsg' = str
  /\ UNCHANGED <<allocated, setflag, epsilon, sigma, cut_lj, cut_coul, eps14, sigma14,
                 cut_lj_global, cut_coul_global, cut_lj_inner, cut_coul_inner, denom_lj,
                 denom_coul, fp, saved>>

\* the pairs the loop of settings() visits: a loop that starts at j = i
SettingsPairsFromI == TypePairs

\* for (i = 1; i <= atom->ntypes; i++) for (j = i+1; j <= atom->ntypes; j++)
SettingsPairs == { p \in TypePairs : p[1] + 1 <= p[2] }

\* PairLJClass2CoulCutOMP::settings(narg, arg)
SettingsClass2(narg, a0, a1) ==
  /\ phase = "pair" /\ style = "class2" /\ errmsg = ""
  /\ Command("settings")
  /\ IF narg < 1 \/ narg > 2
       THEN Fail("Illegal pair_style command")
       ELSE LET lj == a0
                coul == IF narg = 1 THEN a0 ELSE a1
                hit == IF allocated # 0
                         THEN { p \in SettingsPairs : setflag[p] # 0 }
                         ELSE {}
            IN /\ cut_lj_global' = lj
               /\ cut_coul_global' = coul
               /\ cut_lj' = IF allocated # 0
                              THEN [p \in TypePairs |-> IF p \in hit THEN lj ELSE cut_lj[p]]
                              ELSE cut_lj
               /\ cut_coul' = IF allocated # 0
                                THEN [p \in TypePairs |->
                                        IF p \in hit THEN coul ELSE cut_coul[p]]
                                ELSE cut_coul
               /\ UNCHANGED <<allocated, setflag, epsilon, sigma, eps14, sigma14,
                              cut_lj_inner, cut_coul_inner, denom_lj, denom_coul, fp,
                              saved, errmsg>>
  /\ PairFrozen

\* PairLJCharmmCoulCharmmOMP::settings(narg, arg)
SettingsCharmm(narg, a0, a1, a2, a3) ==
  /\ phase = "pair" /\ style = "charmm" /\ errmsg = ""
  /\ Command("settings")
  /\ IF narg # 2 /\ narg # 4
       THEN Fail("Illegal pair_style command")
       ELSE /\ cut_lj_inner' = a0
            /\ cut_lj' = a1
            /\ cut_coul_inner' = IF narg = 2 THEN a0 ELSE a2
            /\ cut_coul' = IF narg = 2 THEN a1 ELSE a3
            /\ UNCHANGED <<allocated, setflag, epsilon, sigma, eps14, sigma14,
                           cut_lj_global, cut_coul_global, denom_lj, denom_coul, fp,
                           saved, errmsg>>
  /\ PairFrozen

\* settings() has run: the pair_style command has been read
Configured ==
  IF style = "class2" THEN cut_lj_global # Garbage ELSE cut_lj_inner # Garbage

\* the arrays as allocate() leaves them when it is called, as they are otherwise
AfterAllocate(arr) == IF allocated = 0 THEN AllGarbage ELSE arr

\* the pairs the loops of coeff() visit:
\* for (i = ilo; i <= ihi; i++) for (j = MAX(jlo,i); j <= jhi; j++)
CoeffPairs(ri, rj) ==
  { p \in Types \X Types :
      /\ ri[1] <= p[1] /\ p[1] <= ri[2]
      /\ (IF rj[1] > p[1] THEN rj[1] ELSE p[1]) <= p[2] /\ p[2] <= rj[2] }

\* arr with value v at the pairs of P
SetAt(arr, P, v) == [p \in TypePairs |-> IF p \in P THEN v ELSE arr[p]]

\* coeff(narg, arg) of both styles
Coeff(narg, ri, rj) ==
  /\ phase = "pair" /\ style # "none" /\ errmsg = "" /\ Configured
  /\ Command("coeff")
  /\ IF (style = "class2" /\ (narg < 4 \/ narg > 6)) \/ (style = "charmm" /\ narg # 4 /\ narg # 6)
       THEN Fail("Incorrect args for pair coefficients")
       ELSE LET P == CoeffPairs(ri, rj)
                flags == IF allocated = 0 THEN [p \in TypePairs |-> 0] ELSE setflag
            IN /\ allocated' = 1
               /\ setflag' = SetAt(flags, P, 1)
               /\ epsilon' = SetAt(AfterAllocate(epsilon), P, EpsilonArg)
               /\ sigma' = SetAt(AfterAllocate(sigma), P, SigmaArg)
               /\ IF style = "class2"
                    THEN LET cut_lj_one == IF narg >= 5 THEN Arg4 ELSE cut_lj_global
                             cut_coul_one == IF narg = 6 THEN Arg5
                                             ELSE IF narg = 5 THEN Arg4
                                             ELSE cut_coul_global
                         IN /\ cut_lj' = SetAt(AfterAllocate(cut_lj), P, cut_lj_one)
                            /\ cut_coul' = SetAt(AfterAllocate(cut_coul), P, cut_coul_one)
                            /\ eps14' = AfterAllocate(eps14)
                            /\ sigma14' = AfterAllocate(sigma14)
                    ELSE /\ eps14' = SetAt(AfterAllocate(eps14), P, IF narg = 6 THEN Arg4 ELSE EpsilonArg)
                         /\ sigma14' = SetAt(AfterAllocate(sigma14), P,
                                             IF narg = 6 THEN Arg5 ELSE SigmaArg)
                         /\ UNCHANGED <<cut_lj, cut_coul>>
               /\ errmsg' = IF P = {} THEN "Incorrect args for pair coefficients" ELSE ""
               /\ UNCHANGED <<cut_lj_global, cut_coul_global, cut_lj_inner, cut_coul_inner,
                              denom_lj, denom_coul, fp, saved>>
  /\ PairFrozen

\* (cut_ljsq-cut_lj_innersq)^3 with cut_ljsq = cut_lj*cut_lj
Denom(inner, outer) ==
  (outer * outer - inner * inner) * (outer * outer - inner * inner)
    * (outer * outer - inner * inner)

\* a check of the inner cutoffs that also turns down negative ones
InnerNotBelowOrNegative(inner, outer) == inner >= outer \/ inner < 0

\* cut_lj_inner >= cut_lj
InnerNotBelow(inner, outer) == inner >= outer

\* init_style() of both styles; q_flag is atom->q_flag
InitStyle(q_flag) ==
  /\ phase = "pair" /\ style # "none" /\ errmsg = "" /\ Configured
  /\ Command("init_style")
  /\ IF ~q_flag
       THEN Fail(IF style = "class2"
                   THEN "Pair style lj/class2/coul/cut requires atom attribute q"
                   ELSE "Pair style lj/charmm/coul/charmm requires atom attribute q")
       ELSE IF style = "charmm"
              THEN IF InnerNotBelow(cut_lj_inner, cut_lj) \/ InnerNotBelow(cut_coul_inner, cut_coul)
                     THEN Fail("Pair inner cutoff >= Pair outer cutoff")
                     ELSE /\ denom_lj' = Denom(cut_lj_inner, cut_lj)
                          /\ denom_coul' = Denom(cut_coul_inner, cut_coul)
                          /\ UNCHANGED <<allocated, setflag, epsilon, sigma, cut_lj, cut_coul,
                                         eps14, sigma14, cut_lj_global, cut_coul_global,
                                         cut_lj_inner, cut_coul_inner, fp, saved, errmsg>>
              ELSE UNCHANGED <<allocated, setflag, epsilon, sigma, cut_lj, cut_coul, eps14,
                               sigma14, cut_lj_global, cut_coul_global, cut_lj_inner,
                               cut_coul_inner, denom_lj, denom_coul, fp, saved, errmsg>>
  /\ PairFrozen

\* fwrite(&v,sizeof(int),1,fp): the four bytes of an int, low byte first
IntBytes(v) == << v % 256, (v \div 256) % 256, (v \div 65536) % 256, 0 >>

\* fwrite(&v,sizeof(double),1,fp): the eight bytes of a double; a whole number
\* of small size is kept as its two's complement
DoubleBytes(v) ==
  LET fill == IF v < 0 THEN 255 ELSE 0
  IN << v % 256, fill, fill, fill, fill, fill, fill, fill >>

\* the n bytes at pos of the file, nothing when the file ends before
Take(pos, n) == IF pos + n - 1 <= Len(fp) THEN SubSeq(fp, pos, pos + n - 1) ELSE <<>>

\* fread(&v,sizeof(int),1,fp)
AsInt(b) == IF b = <<>> THEN Garbage ELSE b[1] + 256 * b[2] + 65536 * b[3] + 16777216 * b[4]

\* fread(&v,sizeof(double),1,fp); bytes that are none of the whole numbers
\* give a value of no meaning
AsDouble(b) ==
  IF b = <<>> THEN Garbage
  ELSE LET v == IF b[8] >= 128 THEN b[1] - 256 ELSE b[1]
       IN IF DoubleBytes(v) = b THEN v ELSE Garbage

\* the type pairs in the order of the loops
\* for (i = 1; i <= atom->ntypes; i++) for (j = i; j <= atom->ntypes; j++)
PairRank(p) ==
  Cardinality({ r \in TypePairs : r[1] < p[1] \/ (r[1] = p[1] /\ r[2] < p[2]) }) + 1

PairSeq == [k \in 1 .. Cardinality(TypePairs) |-> CHOOSE p \in TypePairs : PairRank(p) = k]

\* write_restart_settings(fp)
SettingsBytes ==
  (IF style = "class2"
     THEN DoubleBytes(cut_lj_global) \o DoubleBytes(cut_coul_global)
     ELSE DoubleBytes(cut_lj_inner) \o DoubleBytes(cut_lj)
            \o DoubleBytes(cut_coul_inner) \o DoubleBytes(cut_coul))
    \o IntBytes(offset_flag) \o IntBytes(mix_flag)

\* the loop of write_restart from the k-th pair on
RECURSIVE PairBytes(_)
PairBytes(k) ==
  IF k > Len(PairSeq) THEN <<>>
  ELSE LET p == PairSeq[k]
       IN IntBytes(setflag[p])
            \o (IF setflag[p] # 0
                  THEN DoubleBytes(epsilon[p]) \o DoubleBytes(sigma[p])
                         \o DoubleBytes(Third[p]) \o DoubleBytes(Fourth[p])
                  ELSE <<>>)
            \o PairBytes(k + 1)

\* what a restart is to bring back
Snapshot ==
  [globals |-> IF style = "class2"
                 THEN <<cut_lj_global, cut_coul_global, offset_flag, mix_flag>>
                 ELSE <<cut_lj_inner, cut_lj, cut_coul_inner, cut_coul, offset_flag, mix_flag>>,
   setflag |-> setflag,
   values |-> [p \in TypePairs |-> <<epsilon[p], sigma[p], Third[p], Fourth[p]>>]]

\* write_restart(fp) of both styles
WriteRestart ==
  /\ phase = "pair" /\ style # "none" /\ errmsg = "" /\ Configured
  /\ Command("write_restart")
  /\ allocated # 0
  /\ fp' = SettingsBytes \o PairBytes(1)
  /\ saved' = Snapshot
  /\ UNCHANGED <<allocated, setflag, epsilon, sigma, cut_lj, cut_coul, eps14, sigma14,
                 cut_lj_global, cut_coul_global, cut_lj_inner, cut_coul_inner, denom_lj,
                 denom_coul, errmsg>>
  /\ PairFrozen

\* the bytes of the settings in the file
SettingsLen == IF style = "class2" THEN 2 * 8 + 2 * 4 ELSE 4 * 8 + 2 * 4

\* the per-pair value the m-th fread of a set pair goes to, with the last two
\* in the other order
ReadIntoSwapped == << "epsilon", "sigma", "fourth", "third" >>

\* the per-pair value the m-th fread of a set pair goes to
ReadInto == << "epsilon", "sigma", "third", "fourth" >>

\* the loop of read_restart from the k-th pair on, the file read from pos on;
\* acc holds setflag and the four arrays
RECURSIVE ReadPairs(_, _, _)
ReadPairs(k, pos, acc) ==
  IF k > Len(PairSeq) THEN acc
  ELSE LET p == PairSeq[k]
           flag == AsInt(Take(pos, 4))
           val(m) == AsDouble(Take(pos + 4 + 8 * (m - 1), 8))
           got == [n \in { "epsilon", "sigma", "third", "fourth" } |->
                     val(CHOOSE m \in 1 .. 4 : ReadInto[m] = n)]
       IN IF flag # 0
            THEN ReadPairs(k + 1, pos + 4 + 4 * 8,
                           [acc EXCEPT !.setflag[p] = flag,
                                       !.epsilon[p] = got["epsilon"],
                                       !.sigma[p] = got["sigma"],
                                       !.third[p] = got["third"],
                                       !.fourth[p] = got["fourth"]])
            ELSE ReadPairs(k + 1, pos + 4, [acc EXCEPT !.setflag[p] = flag])

\* read_restart(fp) of both styles: the settings, allocate(), the pairs.  On
\* process 0; MPI_Bcast hands the other processes the same values.
ReadRestart ==
  /\ phase = "pair" /\ style # "none" /\ errmsg = ""
  /\ Command("read_restart")
  /\ fp # <<>>
  /\ LET got == ReadPairs(1, SettingsLen + 1,
                          [setflag |-> [p \in TypePairs |-> 0], epsilon |-> AllGarbage,
                           sigma |-> AllGarbage, third |-> AllGarbage, fourth |-> AllGarbage])
     IN /\ allocated' = 1
        /\ setflag' = got.setflag
        /\ epsilon' = got.epsilon
        /\ sigma' = got.sigma
        /\ IF style = "class2"
             THEN /\ cut_lj_global' = AsDouble(Take(1, 8))
                  /\ cut_coul_global' = AsDouble(Take(9, 8))
                  /\ offset_flag' = AsInt(Take(17, 4))
                  /\ mix_flag' = AsInt(Take(21, 4))
                  /\ cut_lj' = got.third
                  /\ cut_coul' = got.fourth
                  /\ eps14' = AllGarbage
                  /\ sigma14' = AllGarbage
                  /\ UNCHANGED <<cut_lj_inner, cut_coul_inner>>
             ELSE /\ cut_lj_inner' = AsDouble(Take(1, 8))
                  /\ cut_lj' = AsDouble(Take(9, 8))
                  /\ cut_coul_inner' = AsDouble(Take(17, 8))
                  /\ cut_coul' = AsDouble(Take(25, 8))
                  /\ offset_flag' = AsInt(Take(33, 4))
                  /\ mix_flag' = AsInt(Take(37, 4))
                  /\ eps14' = got.third
                  /\ sigma14' = got.fourth
                  /\ UNCHANGED <<cut_lj_global, cut_coul_global>>
  /\ UNCHANGED <<denom_lj, denom_coul, fp, saved, errmsg>>
  /\ UNCHANGED <<mapVars, error, phase, rhoVars, h_error_flag, addVars, seqVars, grpVars,
                 twiceVars, walkVars, style, evalVars>>

\* pair_modify: offset_flag and mix_flag are set anew
PairModify(o, m) ==
  /\ phase = "pair" /\ style # "none" /\ errmsg = ""
  /\ Command("pair_modify")
  /\ offset_flag' = o
  /\ mix_flag' = m
  /\ UNCHANGED <<allocated, setflag, epsilon, sigma, cut_lj, cut_coul, eps14, sigma14,
                 cut_lj_global, cut_coul_global, cut_lj_inner, cut_coul_inner, denom_lj,
                 denom_coul, fp, saved, errmsg>>
  /\ UNCHANGED <<mapVars, error, phase, rhoVars, h_error_flag, addVars, seqVars, grpVars,
                 twiceVars, walkVars, style, evalVars>>

NextPair ==
  \/ \E narg \in 0 .. 3, a0 \in Class2Cuts, a1 \in Class2Cuts : SettingsClass2(narg, a0, a1)
  \/ \E narg \in { 2, 3, 4 }, a0 \in InnerCuts, a1 \in OuterCuts :
       \E a2 \in InnerCuts, a3 \in OuterCuts : SettingsCharmm(narg, a0, a1, a2, a3)
  \/ \E narg \in 3 .. 6, ri \in Ranges, rj \in Ranges : Coeff(narg, ri, rj)
  \/ \E q_flag \in BOOLEAN : InitStyle(q_flag)
  \/ WriteRestart
  \/ ReadRestart
  \/ \E m \in 1 .. 2 : PairModify(1 - offset_flag, m)

SpecPair == InitPair /\ [][NextPair]_vars

\* ------------------------------------------------- eval alone
\* PairLJClass2CoulCutOMP::eval and PairLJCharmmCoulCharmmOMP::eval: the
\* loop over the neighbors of the atoms of ilist, run by the threads of the
\* parallel region.  A force is kept as the set of the contributions added
\* into it, <<sign, i, j, factor_coul, factor_lj>> for sign * del * fpair of
\* the pair i, j.  Every atom has type 1; the atoms sit on a line, atom m
\* at coordinate m.

\* cutsq[itype][jtype] of class2, cut_bothsq of charmm
CutSq == 2

\* force->special_coul and force->special_lj, four entries each
special_coul == [k \in 0 .. 3 |-> 10 + k]

special_lj == [k \in 0 .. 3 |-> 20 + k]

nall == atom.nlocal + atom.nghost

Tids == DOMAIN thr

\* the entries a neighbor list of atom i may hold with n atoms: an index
\* below n, or one with the special bits k * n added, of another atom
Entries(i, n) == { raw \in 0 .. 4 * n - 1 : raw % n # i }

\* the subsets of S of at most k elements
RECURSIVE UpTo(_, _)
UpTo(S, k) ==
  IF k = 0 THEN { {} }
  ELSE LET P == UpTo(S, k - 1) IN P \cup { p \cup { e } : p \in P, e \in S }

\* the elements of a set of numbers in rising order
RECURSIVE Rising(_)
Rising(S) ==
  IF S = {} THEN <<>>
  ELSE LET low == CHOOSE a \in S : \A b \in S : a <= b
       IN <<low>> \o Rising(S \ { low })

\* the neighbor lists of nloc local atoms among n atoms: at most MaxNeigh
\* entries in all, the entries of an atom in rising order
NeighLists(nloc, n) ==
  { [i \in 0 .. nloc - 1 |-> Rising({ e[2] : e \in { d \in P : d[1] = i } })] :
      P \in UpTo({ e \in (0 .. nloc - 1) \X (0 .. 4 * n - 1) : e[2] \in Entries(e[1], n) },
                 MaxNeigh) }

\* the locals of a thread that has not yet entered the region
Unstarted ==
  [pc |-> "start", ii |-> 0, iito |-> 0, jj |-> 0, j |-> Garbage,
   factor_coul |-> Garbage, factor_lj |-> Garbage, ftmp |-> {}, f |-> <<>>]

\* compute() has been called: the atoms, their neighbor list and the threads
InitEval ==
  /\ PassParked("eval")
  /\ skip = 1
  /\ AddIdle
  /\ SeqIdle
  /\ GroupIdle
  /\ WalkIdle
  /\ style \in { "class2", "charmm" }
  /\ allocated = 0
  /\ setflag = <<>> /\ epsilon = <<>> /\ sigma = <<>> /\ eps14 = <<>> /\ sigma14 = <<>>
  /\ cut_lj = Garbage /\ cut_coul = Garbage
  /\ cut_lj_global = Garbage /\ cut_coul_global = Garbage
  /\ cut_lj_inner = Garbage /\ cut_coul_inner = Garbage
  /\ offset_flag = 0 /\ mix_flag = 0
  /\ denom_lj = Garbage /\ denom_coul = Garbage
  /\ fp = <<>>
  /\ saved = <<>>
  /\ errmsg = ""
  /\ ncmd = 0
  /\ lastcmd = ""
  /\ atom = [nlocal |-> EvalNlocal, nghost |-> EvalNghost,
             x |-> [m \in 0 .. EvalNlocal + EvalNghost - 1 |-> m],
             f |-> [m \in 0 .. EvalNlocal + EvalNghost - 1 |-> {}]]
  /\ \E fn \in NeighLists(EvalNlocal, EvalNlocal + EvalNghost) :
       list = [inum |-> EvalNlocal, ilist |-> [k \in 1 .. EvalNlocal |-> k - 1],
               firstneigh |-> fn]
  /\ newton_pair \in 0 .. 1
  /\ comm_nthreads \in 1 .. 2
  /\ thr = [t \in 0 .. comm_nthreads - 1 |-> Unstarted]

EvalFrozen ==
  UNCHANGED <<mapVars, error, phase, rhoVars, h_error_flag, addVars, seqVars, grpVars,
              twiceVars, walkVars, styleVars, list, newton_pair, comm_nthreads>>

\* loop_setup_thr: the thread's share iifrom .. iito-1 of 0 .. inum-1 and its
\* own force array of nall entries, all zero
LoopSetup(t) ==
  /\ phase = "eval" /\ thr[t].pc = "start"
  /\ LET idelta == (list.inum + comm_nthreads - 1) \div comm_nthreads
         iifrom == IF t * idelta > list.inum THEN list.inum ELSE t * idelta
         iito == IF iifrom + idelta > list.inum THEN list.inum ELSE iifrom + idelta
     IN thr' = [thr EXCEPT ![t] = [@ EXCEPT !.pc = "loop", !.ii = iifrom, !.iito = iito,
                                              !.f = [m \in 0 .. nall - 1 |-> {}]]]
  /\ UNCHANGED atom
  /\ EvalFrozen

\* a guard that lets every atom of the list be updated
AnyAtom(j) == j < nall

\* if (NEWTON_PAIR || j < nlocal)
NewtonOrLocal(j) == newton_pair # 0 \/ j < atom.nlocal

\* j = jlist[jj] taken apart: the factors and the index of the atom
Decode(raw) ==
  IF raw < nall
    THEN [j |-> raw, factor_coul |-> 1, factor_lj |-> 1]
    ELSE [j |-> raw % nall, factor_coul |-> special_coul[raw \div nall],
          factor_lj |-> special_lj[raw \div nall]]

\* rsq of the atoms i and j
Rsq(i, j) == (atom.x[i] - atom.x[j]) * (atom.x[i] - atom.x[j])

\* one pass of the loop over jj
EvalNeighbor(t) ==
  /\ phase = "eval" /\ thr[t].pc = "loop" /\ thr[t].ii < thr[t].iito
  /\ LET me == thr[t]
         i == list.ilist[me.ii + 1]
         jlist == list.firstneigh[i]
     IN /\ me.jj < Len(jlist)
        /\ LET d == Decode(jlist[me.jj + 1])
               within == Rsq(i, d.j) < CutSq
               plus == << 1, i, d.j, d.factor_coul, d.factor_lj >>
               minus == << -1, i, d.j, d.factor_coul, d.factor_lj >>
               fi == IF within /\ style = "charmm"
                       THEN [me.f EXCEPT ![i] = @ \cup { plus }]
                       ELSE me.f
               fj == IF within /\ NewtonOrLocal(d.j)
                       THEN [fi EXCEPT ![d.j] = @ \cup { minus }]
                       ELSE fi
           IN thr' = [thr EXCEPT ![t] =
                        [me EXCEPT !.jj = @ + 1, !.j = d.j,
                                   !.factor_coul = d.factor_coul, !.factor_lj = d.factor_lj,
                                   !.ftmp = IF within /\ style = "class2"
                                              THEN @ \cup { plus } ELSE @,
                                   !.f = fj]]
  /\ UNCHANGED atom
  /\ EvalFrozen

\* the loop over jj has ended: class2 adds fxtmp, fytmp, fztmp into f[i];
\* the loop over ii goes on
EvalAtomDone(t) ==
  /\ phase = "eval" /\ thr[t].pc = "loop" /\ thr[t].ii < thr[t].iito
  /\ LET me == thr[t]
         i == list.ilist[me.ii + 1]
     IN /\ me.jj = Len(list.firstneigh[i])
        /\ thr' = [thr EXCEPT ![t] =
                     [me EXCEPT !.ii = @ + 1, !.jj = 0, !.ftmp = {},
                                !.f = IF style = "class2"
                                        THEN [@ EXCEPT ![i] = @ \cup me.ftmp]
                                        ELSE @]]
  /\ UNCHANGED atom
  /\ EvalFrozen

\* force_reduce_thr: the thread's forces are added into atom->f
ForceReduce(t) ==
  /\ phase = "eval" /\ thr[t].pc = "loop" /\ thr[t].ii >= thr[t].iito
  /\ atom' = [atom EXCEPT !.f = [m \in DOMAIN @ |-> @[m] \cup thr[t].f[m]]]
  /\ thr' = [thr EXCEPT ![t] = [@ EXCEPT !.pc = "done"]]
  /\ EvalFrozen

NextEval ==
  \/ \E t \in Tids : LoopSetup(t)
  \/ \E t \in Tids : EvalNeighbor(t)
  \/ \E t \in Tids : EvalAtomDone(t)
  \/ \E t \in Tids : ForceReduce(t)

SpecEval == InitEval /\ [][NextEval]_vars



\* ===================================================================
\* Properties
\* ===================================================================
\* floor of a fractional coordinate
Floor(t) == t \div Scale

\* the cell a position belongs to, by the floors of its coordinates
HomeCell(p) == Floor(tz(p)) * nlocal_y * nlocal_x + Floor(ty(p)) * nlocal_x + Floor(tx(p))

\* some coordinate is negative or has an integer part beyond the local extent
Outside(p) ==
  \/ Floor(tx(p)) < 0 \/ Floor(ty(p)) < 0 \/ Floor(tz(p)) < 0
  \/ Floor(tx(p)) >= nlocal_x \/ Floor(ty(p)) >= nlocal_y \/ Floor(tz(p)) >= nlocal_z

\* every particle index is worked on by exactly one worker
ProcessedOnce == \A i \in Atoms : Cardinality({ g \in Workers : ii(g) = i }) = 1

AllInside == \A i \in Atoms : ~Outside(x_[i])

\* the particles that belong to cell c
Members(c) == { i \in Atoms : ~Outside(x_[i]) /\ HomeCell(x_[i]) = c }

NoCellOver == \A c \in Cells : Cardinality(Members(c)) <= max_atoms

\* the slots of cell c's list that its counter covers
CellList(c) == { atom_stride * k + c : k \in 0 .. counts[c] - 1 }

\* worker g has written code 1 / code 2 in particle_map
SawOutside(g) == pc[g] = "done" /\ ii(g) < nlocal /\ Outside(x_[ii(g)])
SawFull(g) ==
  /\ pc[g] \in {"undo", "done"} /\ ii(g) < nlocal /\ ~Outside(x_[ii(g)])
  /\ old[g] = max_atoms

\* worker g of make_rho3 has written code 1
SawOutside3(g) == strategy = 3 /\ g \in rdone /\ ii(g) < nlocal /\ Outside(x_[ii(g)])

TotalCharge == SumFun([i \in Atoms |-> x_[i].q], Atoms)

ZeroBrick == [pt \in 0 .. NBrick - 1 |-> 0]

\* every slot a counter covers has been written
ListsWritten == \A c \in Cells : \A s \in CellList(c) : ans[s] # Unwritten

\* the brick make_rho leaves when all its workers run on brick br
RECURSIVE MakeRhoAll(_, _)
MakeRhoAll(br, W) ==
  IF W = {} THEN br
  ELSE LET w == CHOOSE w \in W : TRUE
       IN MakeRhoAll(AddTerms(br, RhoCalls(w, 0)), W \ {w})

\* the stencil weights of table coef sum to 1 for every argument
SumsToOne(coef) ==
  \A d \in (0 - Scale) .. Scale :
    SumFun([k \in 0 .. order - 1 |-> Rho1d(coef, k, d)], 0 .. order - 1) = WOne

\* C1: when every particle is worked on once, lies inside the domain and no
\* cell gets more than max_atoms particles, then once particle_map has
\* completed each particle index is in exactly one list slot, that slot is in
\* the list of the cell given by the floors of its coordinates, and each
\* counter equals the number of particles of its cell.
C1_MapPlacesEveryParticle ==
  (phase = "map" /\ MapDone /\ ProcessedOnce /\ AllInside /\ NoCellOver) =>
    /\ \A i \in Atoms :
         /\ Cardinality({ s \in Slots : ans[s] = i }) = 1
         /\ \E s \in CellList(HomeCell(x_[i])) : ans[s] = i
    /\ \A c \in Cells : counts[c] = Cardinality(Members(c))

C1_Witness ==
  /\ phase = "map" /\ MapDone /\ ProcessedOnce /\ AllInside /\ NoCellOver
  /\ \E c, d \in Cells : c # d /\ counts[c] = 2 /\ counts[d] = 1

\* C2: the step of a particle_map worker whose particle has a negative
\* coordinate (also one in (-1,0)) or an integer part beyond the local extent
\* sets the flag to 1, changes no counter and no list slot, and ends the worker.
C2_OutsideOnlySetsFlag ==
  [][\A g \in Workers :
       (phase = "map" /\ pc[g] = "start" /\ pc'[g] # "start"
        /\ ii(g) < nlocal /\ Outside(x_[ii(g)]))
       => (error' = 1 /\ counts' = counts /\ ans' = ans /\ pc'[g] = "done")]_vars

C2_Witness ==
  /\ phase = "map"
  /\ error = 1
  /\ \E g \in Workers :
       /\ pc[g] = "done" /\ ii(g) < nlocal
       /\ tx(x_[ii(g)]) < 0 /\ IntPart(tx(x_[ii(g)])) = 0
  /\ \E c \in Cells : counts[c] > 0

C4_CountersWithinCapacity ==
  (phase = "map" /\ MapDone) => \A c \in Cells : counts[c] <= max_atoms

\* C5: once particle_map has completed the flag holds the largest code any
\* worker wrote: 2 when some worker found a cell full, also when another
\* worker found a particle outside the domain.
C5_WorstCodeWins ==
  (MapDone /\ phase = "map") =>
    error = (IF \E g \in Workers : SawFull(g) THEN 2
             ELSE IF \E g \in Workers : SawOutside(g) THEN 1 ELSE 0)

\* C6: the flag is 0 exactly as long as no worker has found a particle outside
\* the domain or a full cell (so a recorded code is never replaced by 0), and
\* the flag after the pass is 0 if and only if no processed particle is
\* outside the domain and no insertion found its cell full.
C6_FlagZeroIffNoError ==
  /\ error = 0 <=> ~(\E g \in Workers : SawOutside(g) \/ SawFull(g) \/ SawOutside3(g))
  /\ phase = "done" =>
       (error = 0 <=>
          /\ \A g \in Workers : ii(g) < nlocal => ~Outside(x_[ii(g)])
          /\ \A g \in Workers : ~SawFull(g))

C6_Witness ==
  /\ phase = "done" /\ error = 0
  /\ \E c \in Cells : counts[c] = max_atoms
  /\ \E g \in Workers : ii(g) >= nlocal

\* C7: when all callers of atomicFloatAdd on one address have returned, the
\* stored value is the initial value plus the sum of all added values.
C7_NoLostUpdate ==
  (phase = "add" /\ \A a \in Adders : apc[a] = "done") =>
    AsValue(mem) = mem0 + SumFun(aval, Adders)

C7_Witness ==
  /\ phase = "add" /\ variant = "double"
  /\ \A a \in Adders : apc[a] = "done"
  /\ \E a, b \in Adders : a # b /\ atmp[a] = AsBits(mem0 + aval[b]) /\ atmp[b] = AsBits(mem0)
  /\ mem # AsBits(mem0)

\* C8: for the same cell lists, positions, charges and coefficient table the
\* brick make_rho2 leaves equals the brick make_rho leaves on a zeroed brick.
C8_TiledEqualsScatter ==
  (phase = "done" /\ strategy = 2 /\ ListsWritten) =>
    brick = MakeRhoAll(ZeroBrick, RhoWorkers)

C8_Witness ==
  /\ phase = "done" /\ strategy = 2 /\ ListsWritten
  /\ \E c, d \in Cells : c # d /\ counts[c] = 2 /\ counts[d] = 1
  /\ \E pt \in DOMAIN brick : brick[pt] # 0

\* C9: for a pass without overflow and without particles outside the domain
\* the brick make_rho3 leaves equals the brick make_rho leaves.
C9_ResequencedEqualsScatter ==
  (phase = "done" /\ strategy = 3 /\ AllInside /\ NoCellOver /\ ListsWritten) =>
    brick = MakeRhoAll(ZeroBrick, RhoWorkers)

CubeOf(p) ==
  { (Floor(tz(p)) + t[3]) * npts_yx + (Floor(ty(p)) + t[2]) * npts_x + Floor(tx(p)) + t[1] :
      t \in Stencil }

\* the particles inside the domain
Inside == { i \in Atoms : ~Outside(x_[i]) }

\* C11: in every strategy a brick point outside the order^3 cubes of the cells
\* of the particles inside the domain keeps the value zero; with a single
\* particle inside the domain only the points of its cell's cube change.
C11_StencilLocality ==
  \A pt \in DOMAIN brick :
    brick[pt] # 0 => \E i \in Inside : pt \in CubeOf(x_[i])

C11_Witness ==
  /\ phase = "done" /\ strategy \in {1, 3}
  /\ Cardinality(Inside) = 1
  /\ \E pt \in DOMAIN brick : brick[pt] # 0
  /\ \E pt \in DOMAIN brick : brick[pt] = 0

\* C12: for every number of workers and every skip, also one that does not
\* divide the number of workers, the resequenced indices of the workers
\* 0..nthreads-1 are the indices 0..nthreads-1, each exactly once.
C12_ResequencingPermutes ==
  (n_threads > 0 /\ DOMAIN resequenced = 0 .. n_threads - 1) =>
    /\ { resequenced[g] : g \in DOMAIN resequenced } = 0 .. n_threads - 1
    /\ \A g, h \in DOMAIN resequenced : resequenced[g] = resequenced[h] => g = h

\* caller a's atomicCAS is executed in this step and does not store
CasFails(a) ==
  /\ DoubleCas(a) \/ FloatCas(a)
  /\ mem # (IF variant = "double" THEN aold[a] ELSE atmp[a])

\* another caller's atomicCAS has stored since a's last read of the address
\* (since the call began for a caller that has not read)
OtherStoredSince(a) ==
  \/ aread[a] = "stale"
  \/ aread[a] = "none" /\ \E b \in Adders \ {a} : apc[b] = "done"

AllReturned == phase = "add" /\ \A a \in Adders : apc[a] = "done"

GroupDone == gkernel # 0 /\ \A t \in Threads : gpc[t] = "done"

\* some thread has not finished and no thread can take a step
GroupStuck ==
  /\ \E t \in Threads : gpc[t] # "done"
  /\ \A t \in Threads :
       \/ gpc[t] = "done"
       \/ gpc[t] = "barrier" /\ \E u \in Threads : garr[u] < garr[t]

\* every thread of the group passes the same barriers: none is ever ahead of
\* a barrier another has not come to, none is stuck, and a finished thread
\* has passed 'total' barriers
BarriersUniform(total) ==
  gkernel # 0 =>
    /\ \A t, u \in Threads : gbar[t] <= garr[u]
    /\ ~GroupStuck
    /\ \A t \in Threads : gpc[t] = "done" => gbar[t] = total

\* C14 as stated: every thread of a group executes the same barriers,
\* 2 + loop_count*(1+order) of them in make_rho2 and one in make_rho and
\* make_rho3, and no group deadlocks at a barrier.
C14_AsStated ==
  BarriersUniform(IF gkernel = 2 THEN 2 + LoopCount(gnpts_z) * (1 + order) ELSE 1)

\* C14: every thread of a group executes the same barriers, whatever its
\* thread id, whether or not its cell or particle is in range and whatever
\* the atom counts: 1 + loop_count*(1+order) of them in make_rho2 and one in
\* make_rho and make_rho3; no group deadlocks at a barrier.
C14_BarrierUniformity ==
  BarriersUniform(IF gkernel = 2 THEN 1 + LoopCount(gnpts_z) * (1 + order) ELSE 1)

C14_Witness ==
  /\ GroupDone /\ gkernel = 2 /\ LoopCount(gnpts_z) = 2
  /\ \E t, u \in Threads : t[1] < nlocal_z /\ u[1] >= nlocal_z /\ gbar[t] = gbar[u]
  /\ gread # {}

\* the launch gives the group the threads that load the whole table
EnoughThreads ==
  IF gkernel = 1 THEN gshape[1] >= order /\ gshape[2] >= order
  ELSE gshape[1] >= order * order

\* C20: no thread reads an entry of the shared rho_coeff before every thread
\* of the group has come to the first barrier; the entries read are among
\* 0..order*order-1, and when the group has order x order threads in (x,y)
\* (make_rho) or order*order threads (make_rho2, make_rho3) each of them was
\* written by a thread of the group before that barrier.
C20_CoeffLoadedBeforeUse ==
  gkernel # 0 =>
    /\ gread # {} => \A u \in Threads : garr[u] >= 1
    /\ gread \subseteq 0 .. order * order - 1
    /\ EnoughThreads => gread \subseteq gcoeff

C20_Witness ==
  /\ GroupDone /\ gkernel = 1 /\ EnoughThreads
  /\ gread = 0 .. order * order - 1
  /\ \E t \in Threads : Loads(gkernel, t) = {}

\* C17: every written slot of the atom-list array is one of the slots
\* 0..max_atoms-1 of its cell, for any number of particles in a cell and any
\* interleaving.
C17_SlotWithinCapacity ==
  \A c \in Cells : \A k \in 0 .. nlocal - 1 :
    ans[atom_stride * k + c] # Unwritten => k < max_atoms

\* C18: once particle_map has completed, also after an overflow, every slot a
\* cell's counter covers was written in this pass with a particle of that
\* cell, and no particle index is in two slots.
C18_ListsIntact ==
  (phase = "map" /\ MapDone) =>
    /\ \A c \in Cells : \A s \in CellList(c) :
         ans[s] # Unwritten /\ ans[s] \in Members(c)
    /\ \A s, t \in Slots : (ans[s] # Unwritten /\ ans[s] = ans[t]) => s = t

\* the brick make_rho3 leaves when it deposits the particles S on brick br
RECURSIVE Rho3All(_, _)
Rho3All(br, S) ==
  IF S = {} THEN br
  ELSE LET i == CHOOSE i \in S : TRUE
       IN Rho3All(AddTerms(br, Rho3Calls(x_[i])), S \ {i})

\* some worker or group can take its next step, or the kernel has completed
\* and the next stage can start
PassCanStep ==
  \/ phase = "map" /\ \E g \in Workers : pc[g] \in {"start", "added", "undo"}
  \/ phase = "map" /\ MapDone
  \/ phase = "rho" /\ strategy \in {1, 3} /\ RhoUnits \ rdone # {}
  \/ phase = "rho" /\ strategy = 2 /\ NextGroups # {}
  \/ phase = "rho" /\ rdone = RhoUnits

C15_SecondPassSame ==
  (pass = 2 /\ phase = "done") =>
    /\ brick = first.brick
    /\ counts = first.counts
    /\ error = first.error

\* C16: a particle outside the domain adds nothing to the brick in any
\* strategy: particle_map puts it in no list, make_rho and make_rho2 never
\* read it, and make_rho3 leaves the brick of the particles inside the domain.
C16_OutsideAddsNothing ==
  /\ \A s \in Slots : ans[s] # Unwritten => ans[s] \in Inside
  /\ \A p \in rread : ~Outside(p)
  /\ (phase = "done" /\ strategy = 3) => brick = Rho3All(ZeroBrick, Inside)

\* C27: particle_map writes only the cell counters, the atom lists and the
\* error flag; the spreading kernels write only the brick (make_rho3 also the
\* error flag); no kernel writes the positions, the charges or the coefficient
\* table, and the spreading kernels leave the counters and the lists as they
\* were.
C27_Frame ==
  [][/\ x_' = x_
     /\ phase = "rho" => rho_coeff' = rho_coeff
     /\ (phase = "map" /\ phase' = "map") => brick' = brick
     /\ phase = "rho" => (counts' = counts /\ ans' = ans)
     /\ (phase = "rho" /\ strategy \in {1, 2}) => error' = error]_vars

\* a pass in which particle_map has filled a list and set the flag and the
\* spreading kernel has changed the brick
C27_Witness ==
  /\ phase = "done" /\ error # 0
  /\ \E s \in Slots : ans[s] # Unwritten
  /\ \E pt \in DOMAIN brick : brick[pt] # 0

\* C26: every brick index a spreading kernel writes lies in
\* [0, npts_x*npts_y*npts_z): those of make_rho for every list entry it can
\* read, those of make_rho3 for every particle inside the domain, and those of
\* make_rho2 for every worker with nz < npts_z.
C26_BrickIndexInBounds ==
  (phase = "rho" /\ rdone = {}) =>
    /\ strategy = 1 =>
         \A w \in RhoWorkers, u \in Atoms :
           \A c \in RhoCalls(w, u) : c.pt >= 0 /\ c.pt < npts_x * npts_y * npts_z
    /\ strategy = 2 =>
         \A b \in RhoGroups, nz \in 0 .. npts_z - 1 :
           TilePoint(b, nz) >= 0 /\ TilePoint(b, nz) < npts_x * npts_y * npts_z
    /\ strategy = 3 =>
         \A g \in Workers :
           (ii(g) < nlocal /\ ~OutOfDomain(x_[ii(g)])) =>
             \A c \in Rho3Calls(x_[ii(g)]) :
               c.pt >= 0 /\ c.pt < npts_x * npts_y * npts_z

\* a particle of the last cell layer has been deposited in the last brick layer
C26_Witness ==
  /\ phase = "done"
  /\ \E i \in Atoms : ~OutOfDomain(x_[i]) /\ IntPart(tz(x_[i])) = nlocal_z - 1
  /\ \E pt \in DOMAIN brick : pt >= (npts_z - 1) * npts_yx /\ brick[pt] # 0

\* the sum over p = 0..order-1 of rho_coeff[p*order+k] * d^p, in the scaling of
\* a stencil weight
PolySum(coef, k, d) ==
  SumFun([p \in 0 .. order - 1 |->
            coef[p * order + k + 1] * Pow(d, p) * Pow(Scale, order - p)],
         0 .. order - 1)

\* C29: in every kernel the weight of stencil offset k is the sum over p of
\* rho_coeff[p*order+k] * d^p, computed in exactly 'order' Horner steps that
\* read the table at (order-1)*order+k, ..., order+k, k, all within
\* [0, order*order); make_rho2's indices k-l and k-m give the weights of the
\* offsets order-1-l and order-1-m; and the value added for the offset (l,m,n)
\* is charge*delvolinv*wx(l)*wy(m)*wz(n).
C29_HornerSeparable ==
  (phase = "rho" /\ rdone = {}) =>
    /\ \A k \in 0 .. order - 1 :
         /\ HornerIndices(order2 + k, k, 0)
              = [j \in 1 .. order |-> (order - j) * order + k]
         /\ HornerIndices(order2 + order - 1, 0, k)
              = HornerIndices(order2 + (order - 1 - k), order - 1 - k, 0)
         /\ \A j \in 1 .. order :
              /\ HornerIndices(order2 + k, k, 0)[j] \in 0 .. order * order - 1
              /\ HornerIndices(order2 + order - 1, 0, k)[j] \in 0 .. order * order - 1
         /\ \A d \in Offsets :
              /\ Rho1d(rho_coeff, k, d) = PolySum(rho_coeff, k, d)
              /\ Rho1dTiled(rho_coeff, k, d) = PolySum(rho_coeff, order - 1 - k, d)
    /\ \A i \in Atoms : \A t \in Stencil :
         LET p == x_[i]
             cx == IntPart(tx(p))
             cy == IntPart(ty(p))
             cz == IntPart(tz(p))
         IN /\ RhoTerm(rho_coeff, p, cx, cy, cz, t[1], t[2], t[3])
                = delvolinv * p.q * PolySum(rho_coeff, t[1], RhoArg(cx, tx(p)))
                    * PolySum(rho_coeff, t[2], RhoArg(cy, ty(p)))
                    * PolySum(rho_coeff, t[3], RhoArg(cz, tz(p)))
            /\ TileTerm(rho_coeff, p, cx, cy, cz, order - 1 - t[1], order - 1 - t[2], t[3])
                = RhoTerm(rho_coeff, p, cx, cy, cz, t[1], t[2], t[3])
            /\ Rho3Term(rho_coeff, p, t[1], t[2], t[3])
                = delvolinv * p.q * PolySum(rho_coeff, t[1], Rho3Arg(cx, tx(p)))
                    * PolySum(rho_coeff, t[2], Rho3Arg(cy, ty(p)))
                    * PolySum(rho_coeff, t[3], Rho3Arg(cz, tz(p)))

\* a kernel has deposited a particle with a table whose linear coefficients
\* are not zero
C29_Witness ==
  /\ phase = "done"
  /\ \E k \in 0 .. order - 1 : rho_coeff[order + k + 1] # 0
  /\ \E pt \in DOMAIN brick : brick[pt] # 0

\* C24: for every cell pos the row loop of make_rho2 reads exactly the entries
\* atoms[k*atom_stride+pos], k = 0..counts[pos]-1, and these are exactly the
\* entries particle_map wrote for that cell.
C24_TiledTraversal ==
  (phase = "rho" /\ strategy = 2) =>
    \A pos \in Cells :
      /\ TileRows(pos) = { k * atom_stride + pos : k \in 0 .. counts[pos] - 1 }
      /\ TileRows(pos) = { s \in Slots : s % atom_stride = pos /\ ans[s] # Unwritten }

\* the brick make_rho2 leaves when all its groups run on brick br
RECURSIVE MakeRho2All(_, _)
MakeRho2All(br, G) ==
  IF G = {} THEN br
  ELSE LET b == CHOOSE b \in G : TRUE
       IN MakeRho2All(TileStore(b, br, 0, 0), G \ {b})

\* point by point sum of two bricks
BrickSum(a, b) == [pt \in DOMAIN a |-> a[pt] + b[pt]]

\* C30: make_rho2 leaves the brick it leaves on a zeroed brick, whatever the
\* brick held before the pass; make_rho and make_rho3 leave the prior contents
\* plus their deposits, which is make_rho2's brick only if the brick was zeroed.
C30_PriorContents ==
  (phase = "done" /\ ListsWritten) =>
    /\ strategy = 2 => brick = MakeRho2All(ZeroBrick, RhoGroups)
    /\ strategy = 1 => brick = BrickSum(brick0, MakeRhoAll(ZeroBrick, RhoWorkers))
    /\ strategy = 3 =>
         brick = BrickSum(brick0, Rho3All(ZeroBrick, { i \in Atoms : ~OutOfDomain(x_[i]) }))
    /\ (strategy \in {1, 3} /\ brick = MakeRho2All(ZeroBrick, RhoGroups)) => brick0 = ZeroBrick

\* make_rho2 has run on a brick that was not zeroed and has left points at zero
C30_Witness ==
  /\ phase = "done" /\ strategy = 2 /\ ListsWritten
  /\ brick0 # ZeroBrick
  /\ \E pt \in DOMAIN brick : brick[pt] = 0 /\ brick0[pt] # 0
  /\ \E pt \in DOMAIN brick : brick[pt] # 0

\* C28: a call of atomicFloatAdd leaves its retry loop in the iteration in which
\* its own atomicCAS stored, and in no other, whatever the address holds, -0.0
\* and NaN included.
C28_AppliedOnce ==
  [][\A a \in Adders :
       (DoubleCas(a) \/ FloatCas(a)) =>
         (apc'[a] = "done" <=> mem = (IF variant = "double" THEN aold[a] ELSE atmp[a]))]_vars

\* the brick layers the followed threads are responsible for
FollowedLayers ==
  { t[1] + i * BLOCK_1D : t \in Threads, i \in 0 .. LoopCount(gnpts_z) - 1 }

\* the brick stores of layer nz so far
StoresOf(nz) == { o \in gout : o[3] = nz }

\* C21: in make_rho2 no two workers of a group touch the same entry of 'front'
\* between two barriers unless both only read it (the reset step, each
\* accumulate step and the read for the brick store are separated by
\* barriers), and every brick point with nz < npts_z is stored exactly once, by
\* one worker of one group.
C21_FrontRaceFree ==
  /\ \A a \in gacc : \A b \in gacc :
       (a[1] = b[1] /\ a[2] # b[2] /\ a[3] = b[3]) => (a[4] = "r" /\ b[4] = "r")
  /\ \A o \in gout : o[3] < gnpts_z /\ o[3] % BLOCK_1D = o[1][1]
  /\ \A nz \in FollowedLayers : Cardinality(StoresOf(nz)) <= 1
  /\ (gkernel = 2 /\ GroupDone) =>
       \A nz \in FollowedLayers : nz < gnpts_z => Cardinality(StoresOf(nz)) = 1
  /\ (gkernel = 2 /\ gacc = {}) =>
       \A b1 \in RhoGroups : \A b2 \in RhoGroups :
         \A z1 \in 0 .. npts_z - 1 : \A z2 \in 0 .. npts_z - 1 :
           TilePoint(b1, z1) = TilePoint(b2, z2) => (b1 = b2 /\ z1 = z2)

\* a full group finished two iterations: the last worker and the first one
\* used neighbouring entries, the halo entries were written and read
C21_Witness ==
  /\ gkernel = 2 /\ GroupDone /\ gnpts_z = BLOCK_1D + order
  /\ \E a \in gacc : a[2] = <<BLOCK_1D - 1, 0>> /\ a[3] = BLOCK_1D /\ a[4] = "w"
  /\ \E a \in gacc : a[2] = <<0, 0>> /\ a[3] = BLOCK_1D /\ a[4] = "r"
  /\ StoresOf(BLOCK_1D) # {}

\* the contributions that belong to brick layer nz: ans[n] of cell layer z
\* with z + n = nz, of the followed cell layers inside the local grid
Due(nz) ==
  { c \in FollowedLayers \X (0 .. order - 1) :
      c[1] < gnpts_z - order + 1 /\ c[1] + c[2] = nz }

\* C22: a contribution produced in one loop iteration of make_rho2 for a z
\* index beyond that iteration's block is kept in the halo part of 'front',
\* moved to the first 'order' entries at the next iteration and stored at its
\* brick point; every store holds exactly the contributions of its layer, and
\* when the loop ends nothing is left in the halo.
C22_HaloCarried ==
  (gkernel = 2 /\ GroupDone) =>
    /\ \A o \in gout : o[4] = Due(o[3])
    /\ \A nz \in FollowedLayers : Due(nz) # {} => StoresOf(nz) # {}
    /\ \A e \in BLOCK_1D .. BLOCK_1D + order - 1 : gfront[e] = {}

\* the last worker's ans[1] of cell layer BLOCK_1D-1 was stored by the first
\* worker, one iteration later, at brick layer BLOCK_1D
C22_Witness ==
  /\ gkernel = 2 /\ GroupDone
  /\ \E o \in gout : /\ o[1] = <<0, 0>> /\ o[2] = 1 /\ o[3] = BLOCK_1D
                      /\ <<BLOCK_1D - 1, 1>> \in o[4]

\* the larger and the smaller of two numbers
Max(a, b) == IF a >= b THEN a ELSE b

Min(a, b) == IF a <= b THEN a ELSE b

\* the cells along one axis whose stencil (the cell and the ord-1 brick
\* columns after it) covers brick column n
Covering(n, nloc, ord) == { c \in 0 .. nloc - 1 : \E l \in 0 .. ord - 1 : c + l = n }

\* what group b has visited
VisitsOf(b) == { v \in wvisit : v[1] = b }

\* C23: the group of brick column (nx,ny) of make_rho2 visits on x exactly
\* the cells max(0, nx-(order-1)) .. min(nlocal_x-1, nx), the same on y, in
\* every z layer; these are exactly the cells whose stencil covers the column;
\* every index z_local+y_local+x_pos read from counts[] is a cell index.
C23_TiledWindow ==
  (phase = "walk" /\ wgeo.kernel = 2) =>
    \A b \in wdone :
      LET xs == Max(0, b[1] - (wgeo.ord - 1)) .. Min(wgeo.nlx - 1, b[1])
          ys == Max(0, b[2] - (wgeo.ord - 1)) .. Min(wgeo.nly - 1, b[2])
      IN /\ { <<v[2], v[3], v[4]>> : v \in VisitsOf(b) } = xs \X ys \X (0 .. wgeo.nlz - 1)
         /\ xs = Covering(b[1], wgeo.nlx, wgeo.ord)
         /\ ys = Covering(b[2], wgeo.nly, wgeo.ord)
         /\ \A v \in VisitsOf(b) :
              /\ v[5] \in 0 .. wgeo.nlx * wgeo.nly * wgeo.nlz - 1
              /\ v[5] = v[4] * (wgeo.nlx * wgeo.nly) + v[3] * wgeo.nlx + v[2]

\* a group at the upper edge of a grid narrower than the stencil has run, with
\* its window cut at both ends
C23_Witness ==
  /\ phase = "walk" /\ wgeo.kernel = 2
  /\ wgeo.ord = 3 /\ wgeo.nlx = 1
  /\ \E b \in wdone : b[1] = 1 /\ VisitsOf(b) # {}
  /\ \E b \in wdone : b[1] = wgeo.nlx + wgeo.ord - 2 /\ b[2] = 0 /\ VisitsOf(b) # {}

\* make_rho: with x_threads >= nlocal_x and enough workers, every local cell
\* is visited by exactly one worker, the one with column x = gid_x mod
\* x_threads, y = gid_y and z block gid_x / x_threads; the other workers visit
\* nothing
RhoPartition ==
  (phase = "walk" /\ wgeo.kernel = 1) =>
    /\ \A v \in wvisit :
         /\ v[2] = v[1][1] % wgeo.xt /\ v[3] = v[1][2]
         /\ v[4] \div Z_BLOCK = v[1][1] \div wgeo.xt
         /\ v[2] < wgeo.nlx /\ v[3] < wgeo.nly /\ v[4] < wgeo.nlz
         /\ v[5] = v[4] * (wgeo.nlx * wgeo.nly) + v[3] * wgeo.nlx + v[2]
    /\ \A c \in (0 .. wgeo.nlx - 1) \X (0 .. wgeo.nly - 1) \X (0 .. wgeo.nlz - 1) :
         LET V == { v \in wvisit : <<v[2], v[3], v[4]>> = c }
         IN /\ Cardinality(V) <= 1
            /\ wdone = WalkWorkers(wgeo) => Cardinality(V) = 1

\* three z blocks, the last of one layer, and a launch with idle workers on
\* every side have been walked
RhoPartitionWitness ==
  /\ phase = "walk" /\ wgeo.kernel = 1 /\ wdone = WalkWorkers(wgeo)
  /\ wgeo.nlz = 2 * Z_BLOCK + 1 /\ wgeo.xt > wgeo.nlx /\ wgeo.sy > wgeo.nly
  /\ wgeo.sx > ZBlocks(wgeo.nlz) * wgeo.xt
  /\ \E v \in wvisit : v[4] = 2 * Z_BLOCK

\* the launch of make_rho in the pass
PassGeo ==
  [kernel |-> 1, ord |-> order, nlx |-> nlocal_x, nly |-> nlocal_y, nlz |-> nlocal_z,
   xt |-> x_threads, sx |-> RHO_SIZE_X, sy |-> RHO_SIZE_Y]

\* the entry of the atom lists a job of worker w reads
RhoSlot(w, j) ==
  atom_stride * j[2] + j[1] * nlocal_x * nlocal_y + w[2] * nlocal_x + (w[1] % x_threads)

\* the jobs of all workers of make_rho
AllRhoJobs == UNION { { <<w, j>> : j \in RhoJobs(w) } : w \in RhoWorkers }

\* every cell has one worker, every entry read was stored by particle_map and
\* every entry particle_map stored is read once
OncePerParticle ==
  /\ \A c \in Cells :
       Cardinality({ v \in UNION { RhoWalk(w, PassGeo) : w \in RhoWorkers } : v[5] = c }) = 1
  /\ \A wj \in AllRhoJobs : ans[RhoSlot(wj[1], wj[2])] # Unwritten
  /\ \A s \in Slots :
       ans[s] # Unwritten =>
         Cardinality({ wj \in AllRhoJobs : RhoSlot(wj[1], wj[2]) = s }) = 1

\* C25: in make_rho, with x_threads >= nlocal_x and enough workers launched,
\* every local cell is processed by exactly one worker and each particle in a
\* cell list is deposited exactly once.
C25_WorkPartition ==
  (phase = "rho" /\ strategy = 1 /\ rdone = {}) => OncePerParticle

\* the same when the lists and counters are the ones particle_map leaves
\* without the race on a full cell
C25_ListsAsWritten ==
  (phase = "rho" /\ strategy = 1 /\ rdone = {} /\ ListsWritten) => OncePerParticle

\* a settings() of class2 that went through on an allocated style
SettingsRan ==
  /\ allocated # 0
  /\ \E narg \in 1 .. 2, a0 \in Class2Cuts, a1 \in Class2Cuts : SettingsClass2(narg, a0, a1)

\* C31: after settings() of PairLJClass2CoulCutOMP on an allocated style every
\* pair i <= j with setflag 1, the diagonal pairs included, has cut_lj[i][j] =
\* cut_lj_global and cut_coul[i][j] = cut_coul_global; the pairs with setflag 0
\* are unchanged.
C31_SettingsResets ==
  [][SettingsRan =>
       \A p \in TypePairs :
         IF setflag[p] # 0
           THEN cut_lj'[p] = cut_lj_global' /\ cut_coul'[p] = cut_coul_global'
           ELSE cut_lj'[p] = cut_lj[p] /\ cut_coul'[p] = cut_coul[p]]_vars

\* the same of the pairs i < j only
C31_OffDiagonal ==
  [][SettingsRan =>
       \A p \in TypePairs :
         IF setflag[p] # 0
           THEN p[1] < p[2] => (cut_lj'[p] = cut_lj_global' /\ cut_coul'[p] = cut_coul_global')
           ELSE cut_lj'[p] = cut_lj[p] /\ cut_coul'[p] = cut_coul[p]]_vars

\* the bytes read_restart has taken from the file
BytesRead == SettingsLen + 4 * Cardinality(TypePairs)
               + 4 * 8 * Cardinality({ p \in TypePairs : setflag[p] # 0 })

\* C32: read_restart on the bytes write_restart produced brings back the
\* global settings (cutoffs, offset_flag, mix_flag), the setflag of every pair
\* i <= j and, where setflag is 1, the four per-pair values; it reads the file
\* to its end, in the order and under the condition of the writing.
C32_RestartRoundTrip ==
  [][ReadRestart =>
       /\ Snapshot'.globals = saved.globals
       /\ setflag' = saved.setflag
       /\ \A p \in TypePairs :
            saved.setflag[p] = 1 => Snapshot'.values[p] = saved.values[p]
       /\ BytesRead' = Len(fp)]_vars

\* a style read back whose pairs are partly set, with cutoffs that differ
C32_Witness ==
  /\ lastcmd = "read_restart"
  /\ \E p \in TypePairs : setflag[p] = 1 /\ Third[p] # Fourth[p]
  /\ \E p \in TypePairs : setflag[p] = 0
  /\ Snapshot.globals = saved.globals

\* init_style() of charmm has run with the charge attribute present
InitStyleRan == style = "charmm" /\ InitStyle(TRUE)

\* a coeff() with a right number of arguments whose ranges select no pair
CoeffOfNoPair ==
  \E narg \in { 4, 6 }, ri \in Ranges, rj \in Ranges :
    CoeffPairs(ri, rj) = {} /\ Coeff(narg, ri, rj)

\* init_style() of charmm stops with the message, and sets nothing, when an
\* inner cutoff is not below its outer cutoff; coeff() stops with its message
\* when no pair is selected
Rejects ==
  /\ (InitStyleRan /\ (cut_lj_inner >= cut_lj \/ cut_coul_inner >= cut_coul)) =>
       /\ errmsg' = "Pair inner cutoff >= Pair outer cutoff"
       /\ UNCHANGED <<denom_lj, denom_coul>>
  /\ CoeffOfNoPair => errmsg' = "Incorrect args for pair coefficients"

\* C33: PairLJCharmmCoulCharmmOMP::init_style rejects cut_lj_inner >= cut_lj
\* or cut_coul_inner >= cut_coul before it computes a squared cutoff or a
\* denominator, so denom_lj and denom_coul are strictly positive whenever they
\* are set; coeff() of both styles reports 'Incorrect args for pair
\* coefficients' when the type ranges select no pair with i <= j.
C33_InnerCutoffRejected ==
  [][/\ Rejects
     /\ (InitStyleRan /\ errmsg' = "") => (denom_lj' > 0 /\ denom_coul' > 0)]_vars

\* the rejections alone
C33_Rejections == [][Rejects]_vars

\* both rejections happen
C33_RejectionsSeen ==
  /\ errmsg # ""
  /\ lastcmd \in { "init_style", "coeff" }

\* the entry of the neighbor list thread t has taken apart last
LastEntry(t) == list.firstneigh[list.ilist[thr[t].ii + 1]][thr[t].jj]

\* C34: in eval of both styles, for every neighbor entry j in [0, 4*nall) the
\* decoded atom index is j mod nall, inside [0, nall), and the special factors
\* are 1.0 when j < nall and special_coul[j div nall], special_lj[j div nall]
\* otherwise; with NEWTON_PAIR = 0 the force entries of the atoms with index
\* >= nlocal are never modified by eval.
C34_DecodeAndGhostFrame ==
  /\ \A t \in Tids :
       (thr[t].pc = "loop" /\ thr[t].jj > 0 /\ LastEntry(t) \in 0 .. 4 * nall - 1) =>
         /\ thr[t].j = LastEntry(t) % nall
         /\ thr[t].j \in 0 .. nall - 1
         /\ thr[t].factor_coul =
              IF LastEntry(t) < nall THEN 1 ELSE special_coul[LastEntry(t) \div nall]
         /\ thr[t].factor_lj =
              IF LastEntry(t) < nall THEN 1 ELSE special_lj[LastEntry(t) \div nall]
  /\ (phase = "eval" /\ newton_pair = 0) =>
       \A m \in atom.nlocal .. nall - 1 :
         /\ atom.f[m] = {}
         /\ \A t \in Tids : thr[t].pc # "start" => thr[t].f[m] = {}

\* eval has returned with NEWTON_PAIR = 0, and a local atom took the force of
\* a ghost neighbor whose entry carried special bits
C34_Witness ==
  /\ phase = "eval" /\ newton_pair = 0
  /\ \A t \in Tids : thr[t].pc = "done"
  /\ \E i \in 0 .. atom.nlocal - 1 : \E c \in atom.f[i] :
       c[1] = 1 /\ c[3] >= atom.nlocal /\ c[4] # 1

====
